---------------------------- MODULE Spec2Model ----------------------------
(***************************************************************************)
(* Chemotype similarity and profile-aggregation engine of app.py.          *)
(*                                                                         *)
(* Representation.                                                         *)
(*   - A Python dict whose iteration order matters (compound maps, count   *)
(*     maps, difference tables) is a sequence of <<key, value>> pairs in   *)
(*     insertion order, with no key twice.                                 *)
(*   - A strain record (strain_data) is a function from field names to     *)
(*     values; a field the dict does not carry is not in its DOMAIN.       *)
(*   - A concentration is an integer number of units of 0.00005 (the       *)
(*     smallest imputation floor, thcv), so 0.001 is 20 and 0.0001 is 2.   *)
(*   - A score (similarity, correlation) is an integer number of units of  *)
(*     0.0001.  Every metric is computed exactly and cut to three          *)
(*     decimals, so it is a multiple of 10 and the 0.5/0.2/0.2/0.1 blend   *)
(*     of four metrics is again an integer.                                *)
(***************************************************************************)
EXTENDS Integers, Sequences, FiniteSets, TLC

VARIABLES
    call,               \* the function or endpoint called last, with its arguments
    result,             \* what that call returned
    current_user_id,    \* the global current_user_id of app.py
    profiles,           \* the contents of user_profiles.json
    strains,            \* strain_db.strains, the catalogue
    tasks,              \* the requests being served concurrently, each with
                        \* its position and the local variables of its handler
    google_maps         \* the files of cache/google_maps and the clock

vars == <<call, result, current_user_id, profiles, strains, tasks, google_maps>>

\* The state of the application, which the functions of the engine leave alone
app == <<current_user_id, profiles, strains>>

-----------------------------------------------------------------------------
(* Python dict and list helpers *)

DictKeys(d) == [i \in 1..Len(d) |-> d[i][1]]

DictHas(d, k) == \E i \in 1..Len(d) : d[i][1] = k

\* d.get(k, default)
DictGet(d, k, default) ==
    IF DictHas(d, k) THEN d[CHOOSE i \in 1..Len(d) : d[i][1] = k][2] ELSE default

\* d[k] = v : an existing key keeps its place, a new key goes last
DictSet(d, k, v) ==
    IF DictHas(d, k)
    THEN [i \in 1..Len(d) |-> IF d[i][1] = k THEN <<k, v>> ELSE d[i]]
    ELSE Append(d, <<k, v>>)

\* strain_data.get(field, default) on a record
FieldGet(r, field, default) == IF field \in DOMAIN r THEN r[field] ELSE default

\* seq[:n + 1]
TakeOneMore(seq, n) == SubSeq(seq, 1, IF Len(seq) < n + 1 THEN Len(seq) ELSE n + 1)

\* seq[:n]
Take(seq, n) == SubSeq(seq, 1, IF Len(seq) < n THEN Len(seq) ELSE n)

NoDuplicates(seq) == \A i, j \in 1..Len(seq) : seq[i] = seq[j] => i = j

RECURSIVE SumSeq(_)
SumSeq(seq) == IF seq = <<>> THEN 0 ELSE Head(seq) + SumSeq(Tail(seq))

RECURSIVE MaxSeq(_)
\* max(values) of a non-empty list
MaxSeq(seq) ==
    IF Len(seq) = 1 THEN seq[1]
    ELSE LET m == MaxSeq(Tail(seq)) IN IF m > seq[1] THEN m ELSE seq[1]

RECURSIVE SortedOrderLastFirst(_, _)
\* A descending order that puts equal keys in reverse original order
SortedOrderLastFirst(keys, left) ==
    IF left = {} THEN <<>>
    ELSE LET first == CHOOSE i \in left :
                        \A j \in left : keys[j] < keys[i] \/ (keys[j] = keys[i] /\ i >= j)
         IN  <<first>> \o SortedOrderLastFirst(keys, left \ {first})

RECURSIVE SortedOrder(_, _)
\* The order sorted(..., reverse=True) gives the positions `left` of a list
\* with integer sort keys `keys`: descending key, and since the sort is
\* stable, equal keys in their original order.
SortedOrder(keys, left) ==
    IF left = {} THEN <<>>
    ELSE LET first == CHOOSE i \in left :
                        \A j \in left : keys[j] < keys[i] \/ (keys[j] = keys[i] /\ i <= j)
         IN  <<first>> \o SortedOrder(keys, left \ {first})

\* sorted(items, key=..., reverse=True), keys[i] being the key of items[i]
SortedReverse(items, keys) ==
    LET order == SortedOrder(keys, 1..Len(items))
    IN  [i \in 1..Len(items) |-> items[order[i]]]

Abs(x) == IF x < 0 THEN -x ELSE x

-----------------------------------------------------------------------------
(* Fixed schema and imputation floors *)

CANNABINOID_SCHEMA ==
    << <<"thc", 0>>, <<"cbd", 0>>, <<"cbg", 0>>, <<"cbn", 0>>, <<"thcv", 0>> >>

TERPENE_SCHEMA ==
    << <<"myrcene", 0>>, <<"limonene", 0>>, <<"caryophyllene", 0>>,
       <<"pinene", 0>>, <<"linalool", 0>>, <<"humulene", 0>>,
       <<"terpinolene", 0>>, <<"ocimene", 0>>, <<"nerolidol", 0>>,
       <<"bisabolol", 0>>, <<"eucalyptol", 0>> >>

CONSERVATIVE_IMPUTATION ==
    [thc |-> 20, cbd |-> 20, cbg |-> 10, cbn |-> 2, thcv |-> 1,
     myrcene |-> 20, limonene |-> 20, caryophyllene |-> 20, pinene |-> 20,
     linalool |-> 20, humulene |-> 10, terpinolene |-> 10, ocimene |-> 10,
     nerolidol |-> 2, bisabolol |-> 2, eucalyptol |-> 2]

\* schema.copy() filled by the loop over the schema: the keys keep the
\* schema's order, a key of `given` keeps its value, any other gets its floor
NormalizeFamilyZeroFloor(schema, given) ==
    [i \in 1..Len(schema) |->
        LET c == schema[i][1]
        IN  <<c, IF DictHas(given, c) THEN DictGet(given, c, 0) ELSE 0>>]

NormalizeFamily(schema, given) ==
    [i \in 1..Len(schema) |->
        LET c == schema[i][1]
        IN  <<c, IF DictHas(given, c)
                 THEN DictGet(given, c, 0)
                 ELSE CONSERVATIVE_IMPUTATION[c]>>]

normalize_to_fixed_schema(strain_data) ==
    LET cannabinoids == FieldGet(strain_data, "cannabinoids", <<>>)
        terpenes == FieldGet(strain_data, "terpenes", <<>>)
    IN  [f \in DOMAIN strain_data \cup {"cannabinoids", "terpenes"} |->
            IF f = "cannabinoids" THEN NormalizeFamily(CANNABINOID_SCHEMA, cannabinoids)
            ELSE IF f = "terpenes" THEN NormalizeFamily(TERPENE_SCHEMA, terpenes)
            ELSE strain_data[f]]

-----------------------------------------------------------------------------
(* TerpeneAnnotator *)

\* The keys of terpene_info, with the display name of each
terpene_info ==
    << <<"myrcene", "Myrcene">>, <<"caryophyllene", "Caryophyllene">>,
       <<"limonene", "Limonene">>, <<"pinene", "Pinene">>,
       <<"linalool", "Linalool">>, <<"humulene", "Humulene">>,
       <<"terpinolene", "Terpinolene">>, <<"ocimene", "Ocimene">>,
       <<"terpineol", "Terpineol">> >>

\* f"{percentage * 100:.1f}" as a number of tenths of a percent: a unit of
\* 0.00005 is 0.005 percent, so 20 units are one tenth (halves round up)
LevelTenths(percentage) == (percentage + 10) \div 20

RECURSIVE AnnotateTop(_)
AnnotateTop(top) ==
    IF top = <<>> THEN <<>>
    ELSE LET terpene_key == Head(top)[1]
             percentage == Head(top)[2]
         IN  (IF DictHas(terpene_info, terpene_key)
              THEN << [key |-> terpene_key,
                       name |-> DictGet(terpene_info, terpene_key, ""),
                       level |-> LevelTenths(percentage)] >>
              ELSE <<>>) \o AnnotateTop(Tail(top))

\* The analysis that drops the compounds without an entry in terpene_info
\* before it takes the top 5
build_terpene_analysis_known_first(terpenes) ==
    LET sorted_terpenes ==
            SortedReverse(terpenes, [i \in 1..Len(terpenes) |-> terpenes[i][2]])
        Known(entry) == DictHas(terpene_info, entry[1])
    IN  AnnotateTop(Take(SelectSeq(sorted_terpenes, Known), 5))

build_terpene_analysis(terpenes) ==
    LET sorted_terpenes ==
            SortedReverse(terpenes, [i \in 1..Len(terpenes) |-> terpenes[i][2]])
    IN  AnnotateTop(Take(sorted_terpenes, 5))

-----------------------------------------------------------------------------
(* ProfileAggregator *)

RECURSIVE CollectInto(_, _)
\* for key, value in compounds.items(): all[key].append(value)
CollectInto(all, compounds) ==
    IF compounds = <<>> THEN all
    ELSE LET k == Head(compounds)[1]
             v == Head(compounds)[2]
         IN  CollectInto(DictSet(all, k, Append(DictGet(all, k, <<>>), v)),
                         Tail(compounds))

RECURSIVE CollectFamily(_, _, _)
\* The value lists of one family over the whole strain list, keyed by compound
\* in first-seen order
CollectFamily(all, strain_data_list, family) ==
    IF strain_data_list = <<>> THEN all
    ELSE CollectFamily(CollectInto(all, FieldGet(Head(strain_data_list), family, <<>>)),
                       Tail(strain_data_list), family)

RECURSIVE ExtendAll(_, _)
\* all_x.extend(strain_data.get(field, [])) over the whole strain list
ExtendAll(strain_data_list, field) ==
    IF strain_data_list = <<>> THEN <<>>
    ELSE FieldGet(Head(strain_data_list), field, <<>>)
            \o ExtendAll(Tail(strain_data_list), field)

\* aggregate[compound] = max(values)
MaxOfValues(all) == [i \in 1..Len(all) |-> <<all[i][1], MaxSeq(all[i][2])>>]

RECURSIVE CountItems(_, _)
\* counts[item] = counts.get(item, 0) + 1 over the pooled list
CountItems(counts, items) ==
    IF items = <<>> THEN counts
    ELSE CountItems(DictSet(counts, Head(items), DictGet(counts, Head(items), 0) + 1),
                    Tail(items))

SortedByValue(d) == SortedReverse(d, [i \in 1..Len(d) |-> d[i][2]])

\* [item for item, count in sorted(counts.items(), by count, reverse)[:k]]
TopItems(items, k) == DictKeys(Take(SortedByValue(CountItems(<<>>, items)), k))

calculate_aggregate_terpene_profile(strain_data_list) ==
    LET all_terpenes == CollectFamily(<<>>, strain_data_list, "terpenes")
        all_cannabinoids == CollectFamily(<<>>, strain_data_list, "cannabinoids")
        aggregate_terpenes == MaxOfValues(all_terpenes)
        aggregate_cannabinoids == MaxOfValues(all_cannabinoids)
        sorted_terpenes == SortedByValue(aggregate_terpenes)
        sorted_cannabinoids == SortedByValue(aggregate_cannabinoids)
    IN  [aggregate_terpenes |-> aggregate_terpenes,
         aggregate_cannabinoids |-> aggregate_cannabinoids,
         terpene_analysis |-> build_terpene_analysis(aggregate_terpenes),
         top_effects |-> TopItems(ExtendAll(strain_data_list, "effects"), 10),
         top_medical_effects |->
            TopItems(ExtendAll(strain_data_list, "medical_effects"), 8),
         top_flavors |-> TopItems(ExtendAll(strain_data_list, "flavors"), 6),
         top_aromas |-> TopItems(ExtendAll(strain_data_list, "aromas"), 6),
         strain_count |-> Len(strain_data_list),
         dominant_terpenes |-> DictKeys(Take(sorted_terpenes, 5)),
         dominant_cannabinoids |-> DictKeys(Take(sorted_cannabinoids, 3)),
         terpene_diversity |-> Len(aggregate_terpenes),
         cannabinoid_diversity |-> Len(aggregate_cannabinoids)]

-----------------------------------------------------------------------------
(* Arithmetic of numpy and scikit-learn, exact and cut to three decimals.   *)
(* Products that do not fit a machine integer are compared as naturals in   *)
(* decimal digits, least significant first.                                 *)

RECURSIVE Big(_)
Big(n) == IF n = 0 THEN <<>> ELSE <<n % 10>> \o Big(n \div 10)

RECURSIVE BigScale(_, _, _)
\* x * m + carry
BigScale(x, m, carry) ==
    IF x = <<>> THEN Big(carry)
    ELSE LET t == x[1] * m + carry
         IN  <<t % 10>> \o BigScale(Tail(x), m, t \div 10)

RECURSIVE BigCmp(_, _)
\* -1, 0 or 1 as x < y, x = y or x > y
BigCmp(x, y) ==
    IF x = <<>> /\ y = <<>> THEN 0
    ELSE LET hx == IF x = <<>> THEN 0 ELSE x[1]
             hy == IF y = <<>> THEN 0 ELSE y[1]
             c == BigCmp(IF x = <<>> THEN <<>> ELSE Tail(x),
                         IF y = <<>> THEN <<>> ELSE Tail(y))
         IN  IF c # 0 THEN c ELSE IF hx < hy THEN -1 ELSE IF hx > hy THEN 1 ELSE 0

Sign(x) == IF x < 0 THEN -1 ELSE IF x > 0 THEN 1 ELSE 0

RECURSIVE ISqrtIn(_, _, _)
ISqrtIn(x, lo, hi) ==
    IF lo = hi THEN lo
    ELSE LET mid == (lo + hi + 1) \div 2
         IN  IF mid * mid <= x THEN ISqrtIn(x, mid, hi) ELSE ISqrtIn(x, lo, mid - 1)

\* floor(sqrt(x)), x < 2^31
ISqrt(x) == ISqrtIn(x, 0, IF x < 46340 THEN x ELSE 46340)

RECURSIVE MulPow10Div(_, _, _)
\* floor(n * 10^k / d)
MulPow10Div(n, d, k) ==
    IF k = 0 THEN n \div d
    ELSE (n \div d) * 10^k + MulPow10Div((n % d) * 10, d, k - 1)

RECURSIVE Dot(_, _)
\* np.dot(a, b) of two vectors of one length
Dot(a, b) == IF a = <<>> THEN 0 ELSE Head(a) * Head(b) + Dot(Tail(a), Tail(b))

RECURSIVE RatioCutIn(_, _, _, _)
RatioCutIn(ab, pp, lo, hi) ==
    IF lo = hi THEN lo
    ELSE LET mid == (lo + hi + 1) \div 2
         IN  IF BigCmp(BigScale(ab, mid * mid, 0), pp) <= 0
             THEN RatioCutIn(ab, pp, mid, hi)
             ELSE RatioCutIn(ab, pp, lo, mid - 1)

\* p / sqrt(a * b) in thousandths, cut toward zero, for 0 < a, 0 < b and
\* p * p <= a * b: the largest c with c^2 * a * b <= 10^6 * p^2
RatioCut(p, a, b) ==
    LET ab == BigScale(Big(a), b, 0)
        pp == <<0, 0, 0, 0, 0, 0>> \o BigScale(Big(Abs(p)), Abs(p), 0)
    IN  Sign(p) * RatioCutIn(ab, pp, 0, 1000)

\* sklearn cosine_similarity of two rows, as a score: a row of norm zero is
\* left as it is by the normalisation, so its cosine is 0
cosine_similarity(a, b) ==
    IF Dot(a, a) = 0 \/ Dot(b, b) = 0 THEN 0
    ELSE 10 * RatioCut(Dot(a, b), Dot(a, a), Dot(b, b))

\* n * sum(a_i * b_i) - sum(a) * sum(b): n^2 times the covariance
CoMoment(a, b) == Len(a) * Dot(a, b) - SumSeq(a) * SumSeq(b)

\* np.std(a) > 0
StdPositive(a) == CoMoment(a, a) > 0

\* np.corrcoef(a, b)[0, 1] as a score; nan when a or b has zero variance
corrcoef(a, b) ==
    IF CoMoment(a, a) = 0 \/ CoMoment(b, b) = 0
    THEN [nan |-> TRUE, value |-> 0]
    ELSE [nan |-> FALSE,
          value |-> 10 * RatioCut(CoMoment(a, b), CoMoment(a, a), CoMoment(b, b))]

\* The correlation passed on without the clamp at 0
MaxZeroUnclamped(r) == IF r.nan THEN 0 ELSE r.value

\* Python's max(0, r): a comparison with nan is false, so max(0, nan) is 0
MaxZero(r) == IF r.nan THEN 0 ELSE IF r.value > 0 THEN r.value ELSE 0

RECURSIVE EuclidCutIn(_, _, _, _)
EuclidCutIn(d, unit, lo, hi) ==
    IF lo = hi THEN lo
    ELSE LET mid == (lo + hi + 1) \div 2
             t == unit * (1000 - mid)
         IN  IF BigCmp(BigScale(Big(d), mid * mid, 0), BigScale(Big(t), t, 0)) <= 0
             THEN EuclidCutIn(d, unit, mid, hi)
             ELSE EuclidCutIn(d, unit, lo, mid - 1)

\* 1 / (1 + np.linalg.norm(a - b)) as a score, for vectors whose entries
\* count units of 1/unit: the largest s with s * sqrt(d) <= unit * (1000 - s)
euclidean_similarity(a, b, unit) ==
    LET n == IF Len(a) < Len(b) THEN Len(a) ELSE Len(b)
        diff == [i \in 1..n |-> a[i] - b[i]]
    IN  10 * EuclidCutIn(Dot(diff, diff), unit, 0, 1000)

\* One column of StandardScaler().fit_transform, in hundredths: with n rows,
\* c_j = n * x_j - sum(x) and s = sum(c_j^2), z_j = c_j * sqrt(n) / sqrt(s);
\* a column of zero variance is scaled by 1, which leaves it all zero
ScaleColumn(col) ==
    LET n == Len(col)
        total == SumSeq(col)
        c == [j \in 1..n |-> n * col[j] - total]
        s == Dot(c, c)
    IN  [j \in 1..n |->
            IF s = 0 THEN 0
            ELSE Sign(c[j]) * ISqrt(MulPow10Div(n * c[j] * c[j], s, 4))]

\* fit_transform standardising each row over its own entries
fit_transform_per_row(rows) == [j \in 1..Len(rows) |-> ScaleColumn(rows[j])]

\* StandardScaler().fit_transform(rows): each column standardised over all rows
fit_transform(rows) ==
    LET width == Len(Head(rows))
        cols == [k \in 1..width |-> ScaleColumn([j \in 1..Len(rows) |-> rows[j][k]])]
    IN  [j \in 1..Len(rows) |-> [k \in 1..Len(cols) |-> cols[k][j]]]

-----------------------------------------------------------------------------
(* MatchClassifier *)

get_match_rating_exclusive(similarity) ==
    IF similarity > 9000 THEN "Perfect Match"
    ELSE IF similarity > 8000 THEN "Excellent Match"
    ELSE IF similarity > 7000 THEN "Very Good Match"
    ELSE IF similarity > 6000 THEN "Good Match"
    ELSE IF similarity > 5000 THEN "Moderate Match"
    ELSE IF similarity > 3000 THEN "Poor Match"
    ELSE "Very Different"

\* The thresholds 0.9, 0.8, 0.7, 0.6, 0.5 and 0.3 in score units
get_match_rating(similarity) ==
    IF similarity >= 9000 THEN "Perfect Match"
    ELSE IF similarity >= 8000 THEN "Excellent Match"
    ELSE IF similarity >= 7000 THEN "Very Good Match"
    ELSE IF similarity >= 6000 THEN "Good Match"
    ELSE IF similarity >= 5000 THEN "Moderate Match"
    ELSE IF similarity >= 3000 THEN "Poor Match"
    ELSE "Very Different"

-----------------------------------------------------------------------------
(* SimilarityEngine *)

\* x / n cut toward zero
DivCut(x, n) == Sign(x) * (Abs(x) \div n)

\* [d.get(key, 0.0) for key in schema order]
SchemaVector(schema, d) == [i \in 1..Len(schema) |-> DictGet(d, schema[i][1], 0)]

\* The strain vector: terpenes in schema order, then cannabinoids
ProfileVector(terpenes, cannabinoids) ==
    SchemaVector(TERPENE_SCHEMA, terpenes) \o SchemaVector(CANNABINOID_SCHEMA, cannabinoids)

\* An entry that reports a full 100 percent difference against a reference
\* value of 0
ComponentDifferenceFullPercent(compound, strain_values, ideal_values, type) ==
    LET strain_value == DictGet(strain_values, compound, 0)
        ideal_value == DictGet(ideal_values, compound, 0)
        difference == strain_value - ideal_value
    IN  <<compound,
          [strain_value |-> strain_value,
           ideal_value |-> ideal_value,
           difference |-> difference,
           percentage_diff |->
              IF ideal_value > 0 THEN DivCut(difference * 100000, ideal_value)
              ELSE 100000 * Sign(difference),
           type |-> type]>>

\* One entry of component_differences; percentage_diff in thousandths of a
\* percent, cut toward zero
ComponentDifference(compound, strain_values, ideal_values, type) ==
    LET strain_value == DictGet(strain_values, compound, 0)
        ideal_value == DictGet(ideal_values, compound, 0)
        difference == strain_value - ideal_value
    IN  <<compound,
          [strain_value |-> strain_value,
           ideal_value |-> ideal_value,
           difference |-> difference,
           percentage_diff |->
              IF ideal_value > 0 THEN DivCut(difference * 100000, ideal_value) ELSE 0,
           type |-> type]>>

\* similarity = original cosine if the z-scored cosine is negative, else the blend
ChooseSimilarityNonPositive(z_scored_cosine_sim, original_cosine_sim, combined_similarity) ==
    IF z_scored_cosine_sim <= 0 THEN original_cosine_sim ELSE combined_similarity

ChooseSimilarity(z_scored_cosine_sim, original_cosine_sim, combined_similarity) ==
    IF z_scored_cosine_sim < 0 THEN original_cosine_sim ELSE combined_similarity

compare_against_ideal_profile(strain_data, ideal_profile) ==
    LET normalized_strain == normalize_to_fixed_schema(strain_data)
        strain_terpenes == FieldGet(normalized_strain, "terpenes", <<>>)
        strain_cannabinoids == FieldGet(normalized_strain, "cannabinoids", <<>>)
        ideal_terpenes == FieldGet(ideal_profile, "aggregate_terpenes", <<>>)
        ideal_cannabinoids == FieldGet(ideal_profile, "aggregate_cannabinoids", <<>>)
        strain_vector == ProfileVector(strain_terpenes, strain_cannabinoids)
        ideal_vector == ProfileVector(ideal_terpenes, ideal_cannabinoids)
        scaled_vectors == fit_transform(<<strain_vector, ideal_vector>>)
        strain_scaled == Head(scaled_vectors)
        ideal_scaled == scaled_vectors[2]
        z_scored_cosine_sim == cosine_similarity(strain_scaled, ideal_scaled)
        original_cosine_sim == cosine_similarity(strain_vector, ideal_vector)
        euclidean_sim_scaled == euclidean_similarity(strain_scaled, ideal_scaled, 100)
        euclidean_sim_original == euclidean_similarity(strain_vector, ideal_vector, 20000)
        shaped == StdPositive(strain_vector) /\ StdPositive(ideal_vector)
        correlation_scaled ==
            IF shaped THEN MaxZero(corrcoef(strain_scaled, ideal_scaled)) ELSE 0
        correlation_original ==
            IF shaped THEN MaxZero(corrcoef(strain_vector, ideal_vector)) ELSE 0
        combined_similarity ==
            (5 * z_scored_cosine_sim + 2 * euclidean_sim_scaled
                + 2 * correlation_scaled + 1 * original_cosine_sim) \div 10
        similarity ==
            ChooseSimilarity(z_scored_cosine_sim, original_cosine_sim, combined_similarity)
        component_differences ==
            [i \in 1..Len(TERPENE_SCHEMA) |->
                ComponentDifference(TERPENE_SCHEMA[i][1], strain_terpenes,
                                    ideal_terpenes, "terpene")]
            \o [i \in 1..Len(CANNABINOID_SCHEMA) |->
                ComponentDifference(CANNABINOID_SCHEMA[i][1], strain_cannabinoids,
                                    ideal_cannabinoids, "cannabinoid")]
        sorted_differences ==
            SortedReverse(component_differences,
                          [i \in 1..Len(component_differences) |->
                              Abs(component_differences[i][2].difference)])
    IN  [overall_similarity |-> similarity,
         similarity_percentage |-> similarity * 100,
         component_differences |-> sorted_differences,
         match_rating |-> get_match_rating(similarity),
         similarity_breakdown |->
            [z_scored_cosine_similarity |-> z_scored_cosine_sim,
             original_cosine_similarity |-> original_cosine_sim,
             z_scored_euclidean_similarity |-> euclidean_sim_scaled,
             original_euclidean_similarity |-> euclidean_sim_original,
             z_scored_correlation_similarity |-> correlation_scaled,
             original_correlation_similarity |-> correlation_original,
             combined_similarity |-> combined_similarity]]

\* The vector of one ranked favorite, normalized to the fixed schema
FavoriteVector(favorite) ==
    LET normalized_favorite == normalize_to_fixed_schema(favorite)
    IN  ProfileVector(FieldGet(normalized_favorite, "terpenes", <<>>),
                      FieldGet(normalized_favorite, "cannabinoids", <<>>))

\* similarities.sort(by similarity, reverse), the mean, and the result dict
RankedResult(similarities, method, profiles_used) ==
    LET sorted == SortedReverse(similarities,
                                [i \in 1..Len(similarities) |-> similarities[i].similarity])
        overall_similarity ==
            DivCut(SumSeq([i \in 1..Len(sorted) |-> sorted[i].similarity]), Len(sorted))
    IN  [overall_similarity |-> overall_similarity,
         similarity_percentage |-> overall_similarity * 100,
         match_rating |-> get_match_rating(overall_similarity),
         individual_similarities |-> sorted,
         method |-> method,
         profiles_used |-> profiles_used]

compare_with_zscoring(strain_vector, strain_data, ranked_favorites) ==
    LET all_vectors ==
            <<strain_vector>>
                \o [i \in 1..Len(ranked_favorites) |-> FavoriteVector(ranked_favorites[i])]
        scaled_vectors == fit_transform(all_vectors)
        similarities ==
            [i \in 1..Len(ranked_favorites) |->
                LET similarity == cosine_similarity(Head(scaled_vectors), scaled_vectors[i + 1])
                IN  [strain_name |-> FieldGet(ranked_favorites[i], "name", "Unknown"),
                     similarity |-> similarity,
                     similarity_percentage |-> similarity * 100,
                     rank |-> i]]
    IN  RankedResult(similarities, "z_scored_multi_profile", Len(ranked_favorites))

\* The individual comparison with the rank taken from enumerate as it is
compare_against_individual_favorites_rank0(strain_vector, strain_data, ranked_favorites) ==
    LET similarities ==
            [i \in 1..Len(ranked_favorites) |->
                LET similarity ==
                        cosine_similarity(strain_vector, FavoriteVector(ranked_favorites[i]))
                IN  [strain_name |-> FieldGet(ranked_favorites[i], "name", "Unknown"),
                     similarity |-> similarity,
                     similarity_percentage |-> similarity * 100,
                     rank |-> i - 1]]
    IN  RankedResult(similarities, "individual_cosine", Len(ranked_favorites))

compare_against_individual_favorites(strain_vector, strain_data, ranked_favorites) ==
    LET similarities ==
            [i \in 1..Len(ranked_favorites) |->
                LET similarity ==
                        cosine_similarity(strain_vector, FavoriteVector(ranked_favorites[i]))
                IN  [strain_name |-> FieldGet(ranked_favorites[i], "name", "Unknown"),
                     similarity |-> similarity,
                     similarity_percentage |-> similarity * 100,
                     rank |-> i]]
    IN  RankedResult(similarities, "individual_cosine", Len(ranked_favorites))

compare_against_ranked_favorites(strain_data, ranked_favorites, use_zscore) ==
    IF ranked_favorites = <<>>
    THEN [error |-> "No ranked favorites available for comparison"]
    ELSE LET normalized_strain == normalize_to_fixed_schema(strain_data)
             strain_vector ==
                ProfileVector(FieldGet(normalized_strain, "terpenes", <<>>),
                              FieldGet(normalized_strain, "cannabinoids", <<>>))
             top_favorites == Take(ranked_favorites, 3)
         IN  IF use_zscore /\ Len(top_favorites) >= 2
             THEN compare_with_zscoring(strain_vector, strain_data, top_favorites)
             ELSE compare_against_individual_favorites(strain_vector, strain_data,
                                                       top_favorites)

-----------------------------------------------------------------------------
(* Inputs *)

\* Two catalogue records in the shape of _load_comprehensive_database:
\* terpenes only, no cannabinoids field, no name field
GranddaddyPurple ==
    [terpenes |-> << <<"myrcene", 60>>, <<"caryophyllene", 45>>, <<"pinene", 30>>,
                     <<"limonene", 25>>, <<"linalool", 18>>, <<"humulene", 14>>,
                     <<"terpinolene", 7>> >>,
     effects |-> <<"relaxed", "sleepy", "happy", "euphoric", "hungry", "calm">>,
     medical_effects |-> <<"pain relief", "insomnia", "stress", "anxiety", "appetite">>,
     type |-> "indica",
     flavors |-> <<"grape", "berry", "earthy", "sweet">>,
     aromas |-> <<"fruity", "sweet", "grape", "berry">>]

OgKush ==
    [terpenes |-> << <<"myrcene", 52>>, <<"caryophyllene", 42>>, <<"limonene", 32>>,
                     <<"pinene", 25>>, <<"linalool", 21>>, <<"humulene", 18>>,
                     <<"terpinolene", 11>> >>,
     effects |-> <<"uplifted", "happy", "creative", "energetic", "focused",
                   "relaxed", "alert">>,
     medical_effects |-> <<"stress", "depression", "fatigue", "nausea", "inflammation">>,
     type |-> "indica",
     flavors |-> <<"earthy", "pine", "woody", "spicy">>,
     aromas |-> <<"pine", "earthy", "woody", "spicy">>]

\* A generated record in the shape of generate_fallback_strain_data: every
\* compound of both schemas is given
Generated ==
    [name |-> "generated",
     terpenes |-> << <<"myrcene", 48>>, <<"limonene", 30>>, <<"caryophyllene", 20>>,
                     <<"pinene", 20>>, <<"linalool", 20>>, <<"humulene", 10>>,
                     <<"terpinolene", 10>>, <<"ocimene", 10>>, <<"nerolidol", 2>>,
                     <<"bisabolol", 2>>, <<"eucalyptol", 2>> >>,
     cannabinoids |-> << <<"thc", 50>>, <<"cbd", 24>>, <<"cbg", 10>>, <<"cbn", 2>>,
                         <<"thcv", 1>> >>,
     effects |-> <<"relaxed", "happy", "uplifted">>,
     type |-> "hybrid",
     flavors |-> <<"sweet", "citrus", "earthy">>]

\* The same chemotype measured sparsely: the compounds left out are those
\* Generated carries at their imputation floor
Sparse ==
    [name |-> "sparse",
     terpenes |-> << <<"myrcene", 48>>, <<"limonene", 30>> >>,
     cannabinoids |-> << <<"thc", 50>>, <<"cbd", 24>> >>,
     effects |-> <<"relaxed", "happy", "uplifted">>,
     type |-> "hybrid",
     flavors |-> <<"sweet", "citrus", "earthy">>]

\* A record with a zero measurement, a measurement below its floor, compounds
\* outside the schema, and compounds out of schema order
Irregular ==
    [name |-> "irregular",
     terpenes |-> << <<"limonene", 0>>, <<"terpineol", 26>>, <<"myrcene", 36>> >>,
     cannabinoids |-> << <<"cbn", 1>>, <<"thc", 44>>, <<"cbc", 7>> >>,
     effects |-> <<"calm", "sleepy", "calm">>,
     type |-> "sativa",
     flavors |-> <<"pine", "lemon", "herbal">>]

\* A record whose high values sit where the catalogue records have none
CbdDominant ==
    [name |-> "cbd dominant",
     terpenes |-> << <<"bisabolol", 30>>, <<"nerolidol", 24>> >>,
     cannabinoids |-> << <<"cbd", 60>>, <<"cbg", 16>>, <<"thc", 4>> >>,
     effects |-> <<"calm", "focused">>,
     type |-> "hybrid"]

EmptyMaps ==
    [name |-> "empty", terpenes |-> <<>>, cannabinoids |-> <<>>, effects |-> <<>>]

NoMaps == [name |-> "bare", type |-> "unknown"]

Strains ==
    {GranddaddyPurple, OgKush, Generated, Sparse, Irregular, CbdDominant, EmptyMaps, NoMaps}

\* The entry save_ranked_favorites stores for one favorite
RankedFavorite(strain_name, strain_data) ==
    LET normalized_strain == normalize_to_fixed_schema(strain_data)
    IN  [name |-> strain_name,
         terpenes |-> FieldGet(normalized_strain, "terpenes", <<>>),
         cannabinoids |-> FieldGet(normalized_strain, "cannabinoids", <<>>),
         effects |-> FieldGet(strain_data, "effects", <<>>),
         flavors |-> FieldGet(strain_data, "flavors", <<>>),
         type |-> FieldGet(strain_data, "type", "unknown")]

Favorites ==
    {RankedFavorite("generated", Generated), RankedFavorite("irregular", Irregular),
     RankedFavorite("og kush", OgKush)}

MaxStrains == 2

MaxFavorites == 4

MaxScore == 12000

\* The lists over `set` of at most n elements
ListsUpTo(set, n) == UNION {[1..k -> set] : k \in 0..n}

\* The scores given to the classifier: every multiple of 0.01 up to MaxScore
\* in absolute value, and its two neighbours at a distance of 0.0001
Scores == {s \in -MaxScore..MaxScore : s % 100 \in {0, 1, 99}}

-----------------------------------------------------------------------------
(* The catalogue (EnhancedStrainDatabase).  A strain name is the sequence   *)
(* of its characters, so that lower() and strip() act on it as they do in   *)
(* Python.                                                                   *)

\* The upper-case letters of the names below, with their lower-case letters
LowerOf == [O |-> "o", G |-> "g", K |-> "k", Z |-> "z"]

\* str.lower()
Lower(name) ==
    [i \in 1..Len(name) |-> IF name[i] \in DOMAIN LowerOf THEN LowerOf[name[i]] ELSE name[i]]

\* str.upper()
Upper(name) ==
    [i \in 1..Len(name) |->
        IF \E c \in DOMAIN LowerOf : LowerOf[c] = name[i]
        THEN CHOOSE c \in DOMAIN LowerOf : LowerOf[c] = name[i]
        ELSE name[i]]

RECURSIVE LStrip(_)
LStrip(name) ==
    IF name # <<>> /\ Head(name) = " " THEN LStrip(Tail(name)) ELSE name

RECURSIVE RStrip(_)
RStrip(name) ==
    IF name # <<>> /\ name[Len(name)] = " "
    THEN RStrip(SubSeq(name, 1, Len(name) - 1))
    ELSE name

\* str.strip()
Strip(name) == RStrip(LStrip(name))

\* The keys of two records of _load_comprehensive_database: "og kush" and
\* "granddaddy purple"
OgKushKey == <<"o", "g", " ", "k", "u", "s", "h">>

GranddaddyPurpleKey ==
    <<"g", "r", "a", "n", "d", "d", "a", "d", "d", "y", " ",
      "p", "u", "r", "p", "l", "e">>

\* A name that is not in the built-in catalogue: "zk"
ZkName == <<"z", "k">>

_load_comprehensive_database ==
    [key \in {OgKushKey, GranddaddyPurpleKey} |->
        IF key = OgKushKey THEN OgKush ELSE GranddaddyPurple]

\* The value Python's None
None == [is_none |-> TRUE]

\* The lookup by the lower-cased name, not stripped
get_strain_unstripped(catalogue, strain_name) ==
    LET key == Lower(strain_name)
    IN  IF key \in DOMAIN catalogue THEN catalogue[key] ELSE None

\* self.strains.get(strain_name.lower().strip()) on a catalogue
get_strain(catalogue, strain_name) ==
    LET key == Strip(Lower(strain_name))
    IN  IF key \in DOMAIN catalogue THEN catalogue[key] ELSE None

\* The catalogue after self.strains[strain_name.lower()] = strain_data
add_custom_strain(catalogue, strain_name, strain_data) ==
    LET key == Lower(strain_name)
    IN  [k \in DOMAIN catalogue \cup {key} |->
            IF k = key THEN strain_data ELSE catalogue[k]]

-----------------------------------------------------------------------------
(* The application state of app.py: the current user and the stored user    *)
(* profiles.  A user id is the JSON value the client sent, a number or a    *)
(* string; the profiles are keyed by str(user_id).                          *)

IntId(n) == [int |-> n]

StrId(text) == [str |-> text]

\* bool(user_id): None, 0 and "" are false
Truthy(user_id) == user_id # None /\ user_id # IntId(0) /\ user_id # StrId("")

\* str(n) for the numbers used as user ids
DecimalString(n) == <<"0", "1", "2", "3">>[n + 1]

\* str(user_id)
ProfileKey(user_id) ==
    IF "int" \in DOMAIN user_id THEN DecimalString(user_id.int) ELSE user_id.str

\* profiles.get(str(user_id), {...default profile...})
get_user_profile(stored, user_id) ==
    IF ProfileKey(user_id) \in DOMAIN stored
    THEN stored[ProfileKey(user_id)]
    ELSE [id |-> user_id,
          name |-> <<"User", user_id>>,
          address |-> "Default Location",
          radius |-> 25,
          favorite_strains |-> <<>>,
          ranked_favorites |-> <<>>,
          ideal_profile |-> None]

\* The stored profiles after profiles[str(user_id)] = profile
save_user_profile(stored, user_id, profile) ==
    [key \in DOMAIN stored \cup {ProfileKey(user_id)} |->
        IF key = ProfileKey(user_id) THEN profile ELSE stored[key]]

\* profile[field] = value that leaves an ideal profile as it is when the
\* value is None
ProfileSetUnlessNone(profile, field, value) ==
    IF field = "ideal_profile" /\ value = None THEN profile
    ELSE [f \in DOMAIN profile \cup {field} |-> IF f = field THEN value ELSE profile[f]]

\* profile[field] = value on a profile dict
ProfileSet(profile, field, value) ==
    [f \in DOMAIN profile \cup {field} |-> IF f = field THEN value ELSE profile[f]]

\* A response with status 200, and an HTTPException
Ok(body) == [status |-> 200, body |-> body]

HttpError(status, detail) == [status |-> status, detail |-> detail]

\* What generate_strain_data can return for a name: the answer of the
\* language model, or the random fallback record, under the name asked for
GeneratedRecords == {Generated, Irregular}

generate_strain_data(strain_name, answer) ==
    [f \in DOMAIN answer \cup {"name"} |-> IF f = "name" THEN strain_name ELSE answer[f]]

RECURSIVE CollectStrainData(_, _, _, _)
\* The loop of create_ideal_profile and add_strain_to_profile over the
\* names: a record of the catalogue if get_strain finds one, else a
\* generated record, which is added to the catalogue; answers[i] is what
\* generate_strain_data returns if it is asked for names[i].  With
\* `generate` false (remove_strain_from_profile) a name not found is skipped.
CollectStrainData(catalogue, names, answers, generate) ==
    IF names = <<>> THEN [strains |-> catalogue, strain_data_list |-> <<>>]
    ELSE LET found == get_strain(catalogue, Head(names))
             generated == generate_strain_data(Head(names), Head(answers))
             after == IF found = None /\ generate
                      THEN add_custom_strain(catalogue, Head(names), generated)
                      ELSE catalogue
             rest == CollectStrainData(after, Tail(names), Tail(answers), generate)
         IN  [strains |-> rest.strains,
              strain_data_list |->
                (IF found # None THEN <<found>>
                 ELSE IF generate THEN <<generated>> ELSE <<>>)
                    \o rest.strain_data_list]

-----------------------------------------------------------------------------
(* The engine as a state machine: a call of one of its functions with       *)
(* inputs drawn from the sets above, and its return value; the caller       *)
(* discards the result before the next call (the engine keeps no state).    *)

Idle == [fn |-> "idle"]

NoResult == [returned |-> FALSE]

Returned(value) == [returned |-> TRUE, value |-> value]

\* The application before any request: the default user "1", no profile
\* stored, the built-in catalogue
AppInit ==
    /\ current_user_id = StrId("1")
    /\ profiles = <<>>
    /\ strains = _load_comprehensive_database

\* No request is being served
NoTasks == <<>>

\* An empty cache directory at day 0
NoCache == [cache |-> <<>>, now |-> 0]

Init ==
    /\ call = Idle /\ result = NoResult /\ AppInit /\ tasks = NoTasks
    /\ google_maps = NoCache

Normalize ==
    /\ call = Idle
    /\ UNCHANGED <<app, tasks, google_maps>>
    /\ \E strain_data \in Strains :
        /\ call' = [fn |-> "normalize_to_fixed_schema", strain_data |-> strain_data]
        /\ result' = Returned(normalize_to_fixed_schema(strain_data))

\* The terpene maps the annotator is given: a strain's own map
\* (compare_strain) or an aggregate map (calculate_aggregate_terpene_profile)
TerpeneMaps ==
    {FieldGet(strain_data, "terpenes", <<>>) : strain_data \in Strains}
        \cup {calculate_aggregate_terpene_profile(strain_data_list).aggregate_terpenes :
                strain_data_list \in ListsUpTo(Strains, MaxStrains)}

Annotate ==
    /\ call = Idle
    /\ UNCHANGED <<app, tasks, google_maps>>
    /\ \E terpenes \in TerpeneMaps :
        /\ call' = [fn |-> "build_terpene_analysis", terpenes |-> terpenes]
        /\ result' = Returned(build_terpene_analysis(terpenes))

Aggregate ==
    /\ call = Idle
    /\ UNCHANGED <<app, tasks, google_maps>>
    /\ \E strain_data_list \in ListsUpTo(Strains, MaxStrains) :
        /\ call' = [fn |-> "calculate_aggregate_terpene_profile",
                    strain_data_list |-> strain_data_list]
        /\ result' = Returned(calculate_aggregate_terpene_profile(strain_data_list))

\* The ideal profile is the stored aggregate of a non-empty favorites list
CompareIdeal ==
    /\ call = Idle
    /\ UNCHANGED <<app, tasks, google_maps>>
    /\ \E strain_data \in Strains :
       \E favorites \in ListsUpTo(Strains, MaxStrains) \ {<<>>} :
        /\ call' = [fn |-> "compare_against_ideal_profile",
                    strain_data |-> strain_data,
                    favorites |-> favorites,
                    ideal_profile |-> calculate_aggregate_terpene_profile(favorites)]
        /\ result' = Returned(compare_against_ideal_profile(strain_data,
                                                            call'.ideal_profile))

CompareRanked ==
    /\ call = Idle
    /\ UNCHANGED <<app, tasks, google_maps>>
    /\ \E strain_data \in Strains :
       \E ranked_favorites \in ListsUpTo(Favorites, MaxFavorites) :
       \E use_zscore \in BOOLEAN :
        /\ call' = [fn |-> "compare_against_ranked_favorites",
                    strain_data |-> strain_data,
                    ranked_favorites |-> ranked_favorites,
                    use_zscore |-> use_zscore]
        /\ result' = Returned(compare_against_ranked_favorites(strain_data,
                                                               ranked_favorites,
                                                               use_zscore))

Classify ==
    /\ call = Idle
    /\ UNCHANGED <<app, tasks, google_maps>>
    /\ \E similarity \in Scores :
        /\ call' = [fn |-> "get_match_rating", similarity |-> similarity]
        /\ result' = Returned(get_match_rating(similarity))

Return ==
    /\ call # Idle
    /\ UNCHANGED <<app, tasks, google_maps>>
    /\ call' = Idle
    /\ result' = NoResult

Next ==
    \/ Normalize
    \/ Annotate
    \/ Aggregate
    \/ CompareIdeal
    \/ CompareRanked
    \/ Classify
    \/ Return

Spec == Init /\ [][Next]_vars

-----------------------------------------------------------------------------
(* Properties of the normalizer and the aggregator *)

IsNormalizeCall == call.fn = "normalize_to_fixed_schema" /\ result.returned

IsAggregateCall == call.fn = "calculate_aggregate_terpene_profile"

Max2(a, b) == IF a > b THEN a ELSE b

\* The entries of a normalized family map that satisfy `Entry(compound,
\* value, given)`, `given` being the family's map in the input record
FamilyEntries(normalized, given, Entry(_, _, _)) ==
    \A i \in 1..Len(normalized) : Entry(normalized[i][1], normalized[i][2], given)

\* C1: normalize_to_fixed_schema returns, for every input record, a
\* cannabinoid map with exactly the 5 canonical cannabinoids and a terpene map
\* with exactly the 11 canonical terpenes, both in canonical order (so no
\* compound outside the schema survives), and every canonical compound the
\* input does not carry has exactly its imputation floor, which is not 0.
C1_FixedSchemaWithFloors ==
    IsNormalizeCall =>
        LET MissingGetsFloor(c, v, given) ==
                ~DictHas(given, c) => v = CONSERVATIVE_IMPUTATION[c] /\ v # 0
        IN  /\ Len(result.value.cannabinoids) = 5
            /\ Len(result.value.terpenes) = 11
            /\ DictKeys(result.value.cannabinoids) = DictKeys(CANNABINOID_SCHEMA)
            /\ DictKeys(result.value.terpenes) = DictKeys(TERPENE_SCHEMA)
            /\ FamilyEntries(result.value.cannabinoids,
                             FieldGet(call.strain_data, "cannabinoids", <<>>),
                             MissingGetsFloor)
            /\ FamilyEntries(result.value.terpenes,
                             FieldGet(call.strain_data, "terpenes", <<>>),
                             MissingGetsFloor)

\* A record with compounds outside the schema and canonical compounds left
\* out has been normalized: cbc and terpineol are gone, cbd is at its floor
C1_Witness ==
    /\ IsNormalizeCall
    /\ DictHas(FieldGet(call.strain_data, "cannabinoids", <<>>), "cbc")
    /\ DictHas(FieldGet(call.strain_data, "terpenes", <<>>), "terpineol")
    /\ ~DictHas(FieldGet(call.strain_data, "cannabinoids", <<>>), "cbd")
    /\ ~DictHas(result.value.cannabinoids, "cbc")
    /\ ~DictHas(result.value.terpenes, "terpineol")
    /\ DictGet(result.value.cannabinoids, "cbd", 0) = CONSERVATIVE_IMPUTATION.cbd

\* C2: for each canonical compound, normalize uses the observed value only if
\* the compound is present in the input and its value is > 0, and substitutes
\* the compound's imputation floor otherwise (absent, or present with value
\* 0), so every entry of the normalized maps is strictly greater than 0.
C2_ObservedOnlyIfPositive ==
    IsNormalizeCall =>
        LET ObservedOrFloor(c, v, given) ==
                /\ v = IF DictHas(given, c) /\ DictGet(given, c, 0) > 0
                       THEN DictGet(given, c, 0)
                       ELSE CONSERVATIVE_IMPUTATION[c]
                /\ v > 0
        IN  /\ FamilyEntries(result.value.cannabinoids,
                             FieldGet(call.strain_data, "cannabinoids", <<>>),
                             ObservedOrFloor)
            /\ FamilyEntries(result.value.terpenes,
                             FieldGet(call.strain_data, "terpenes", <<>>),
                             ObservedOrFloor)

\* C3: for all records A and B and every canonical compound c, the aggregate
\* of [A, B] carries c with the value max(normalize(A)[c], normalize(B)[c]),
\* also for a compound measured in one record only or in neither.
C3_AggregateIsMaxOfNormalized ==
    (IsAggregateCall /\ Len(call.strain_data_list) = 2) =>
        LET A == normalize_to_fixed_schema(call.strain_data_list[1])
            B == normalize_to_fixed_schema(call.strain_data_list[2])
            MaxOfBoth(aggregate, a, b) ==
                \A i \in 1..Len(a) :
                    /\ DictHas(aggregate, a[i][1])
                    /\ DictGet(aggregate, a[i][1], 0) = Max2(a[i][2], b[i][2])
        IN  /\ MaxOfBoth(result.value.aggregate_terpenes, A.terpenes, B.terpenes)
            /\ MaxOfBoth(result.value.aggregate_cannabinoids,
                         A.cannabinoids, B.cannabinoids)

\* C4: the aggregate of zero records fails with EmptyInputError; no profile
\* is returned for an empty input list.
C4_EmptyInputFails ==
    (IsAggregateCall /\ call.strain_data_list = <<>>) =>
        /\ ~result.returned
        /\ "raised" \in DOMAIN result
        /\ result.raised = "EmptyInputError"

-----------------------------------------------------------------------------
(* Properties of the similarity engine and the classifier *)

IsIdealCall == call.fn = "compare_against_ideal_profile"

IsRankedCall == call.fn = "compare_against_ranked_favorites"

IsClassifyCall == call.fn = "get_match_rating"

\* The reference vector the ideal mode reads from an ideal profile
IdealVector(ideal_profile) ==
    ProfileVector(FieldGet(ideal_profile, "aggregate_terpenes", <<>>),
                  FieldGet(ideal_profile, "aggregate_cannabinoids", <<>>))

\* The candidate of an ideal-mode call is, once normalized, identical to
\* the reference
IdenticalReference ==
    IsIdealCall /\ FavoriteVector(call.strain_data) = IdealVector(call.ideal_profile)

\* C5: comparing a normalized chemotype against a reference identical to it
\* in ideal-profile mode yields raw cosine 1.0, overall similarity >= 0.99
\* and the rating "Perfect Match".
C5_IdenticalIsPerfect ==
    IdenticalReference =>
        /\ result.value.similarity_breakdown.original_cosine_similarity = 10000
        /\ result.value.overall_similarity >= 9900
        /\ result.value.match_rating = "Perfect Match"

\* The blend 0.5 zcos + 0.2 zeuclid + 0.2 zcorr + 0.1 cos of a breakdown
Blend(breakdown) ==
    (5 * breakdown.z_scored_cosine_similarity
        + 2 * breakdown.z_scored_euclidean_similarity
        + 2 * breakdown.z_scored_correlation_similarity
        + 1 * breakdown.original_cosine_similarity) \div 10

\* C6: in ideal-profile mode the overall score is the blend 0.5 (z-scored
\* cosine) + 0.2 (z-scored euclidean similarity) + 0.2 (z-scored correlation)
\* + 0.1 (raw cosine) whenever the z-scored cosine is >= 0, and the raw cosine
\* alone when the z-scored cosine is negative; the reported rating is the
\* classification of that overall score.
C6_BlendOrRawCosine ==
    IsIdealCall =>
        LET breakdown == result.value.similarity_breakdown
            overall == result.value.overall_similarity
        IN  /\ breakdown.z_scored_cosine_similarity >= 0 => overall = Blend(breakdown)
            /\ breakdown.z_scored_cosine_similarity < 0 =>
                    overall = breakdown.original_cosine_similarity
            /\ breakdown.combined_similarity = Blend(breakdown)
            /\ result.value.match_rating = get_match_rating(overall)
            /\ result.value.similarity_percentage = 100 * overall

\* An ideal-mode result on the blend path whose blend differs from the raw
\* cosine
C6_Witness ==
    /\ IsIdealCall
    /\ result.value.similarity_breakdown.z_scored_cosine_similarity >= 0
    /\ result.value.overall_similarity = Blend(result.value.similarity_breakdown)
    /\ result.value.overall_similarity
            # result.value.similarity_breakdown.original_cosine_similarity

\* The 7 labels, lowest rank first
MatchLabels ==
    <<"Very Different", "Poor Match", "Moderate Match", "Good Match",
      "Very Good Match", "Excellent Match", "Perfect Match">>

LabelRank(label) == CHOOSE i \in 1..Len(MatchLabels) : MatchLabels[i] = label

\* C7: get_match_rating is total: every score, also a negative one and one
\* above 1, gets exactly one of the 7 labels, by the lower-inclusive
\* thresholds 0.9 / 0.8 / 0.7 / 0.6 / 0.5 / 0.3, so a higher score never gets
\* a lower-ranked label.
C7_ClassifyTotalMonotone ==
    IsClassifyCall =>
        LET s == call.similarity
            label == result.value
        IN  /\ result.returned
            /\ \E i \in 1..Len(MatchLabels) : MatchLabels[i] = label
            /\ (label = "Perfect Match") <=> (s >= 9000)
            /\ (label = "Excellent Match") <=> (8000 <= s /\ s < 9000)
            /\ (label = "Very Good Match") <=> (7000 <= s /\ s < 8000)
            /\ (label = "Good Match") <=> (6000 <= s /\ s < 7000)
            /\ (label = "Moderate Match") <=> (5000 <= s /\ s < 6000)
            /\ (label = "Poor Match") <=> (3000 <= s /\ s < 5000)
            /\ (label = "Very Different") <=> (s < 3000)
            /\ \A higher \in Scores :
                    higher >= s => LabelRank(get_match_rating(higher)) >= LabelRank(label)

\* A score exactly on a threshold has been classified into the upper label
C7_Witness ==
    /\ IsClassifyCall
    /\ call.similarity = 9000
    /\ result.value = "Perfect Match"

-----------------------------------------------------------------------------
(* Properties of the aggregate's ranked lists and of the result shape *)

\* How often `item` occurs in the pooled list, and where it occurs first
CountOf(pooled, item) == Cardinality({i \in 1..Len(pooled) : pooled[i] = item})

FirstSeen(pooled, item) ==
    CHOOSE i \in 1..Len(pooled) :
        pooled[i] = item /\ \A j \in 1..(i - 1) : pooled[j] # item

\* `top` lists items of `pooled` by descending count, equal counts in
\* first-seen order
RankedByCountThenFirstSeen(top, pooled) ==
    \A i, j \in 1..Len(top) :
        i < j =>
            \/ CountOf(pooled, top[i]) > CountOf(pooled, top[j])
            \/ /\ CountOf(pooled, top[i]) = CountOf(pooled, top[j])
               /\ FirstSeen(pooled, top[i]) < FirstSeen(pooled, top[j])

\* The pooled list of one attribute of the call's records, in the given order
Pooled(field) == ExtendAll(call.strain_data_list, field)

\* C8: in every frequency-ranked list of the aggregate (effects, medical
\* effects, flavors, aromas) the items are in descending order of count, and
\* items of equal count are in the order in which they were first seen while
\* scanning the input records in the given order.
C8_FrequencyRankStable ==
    IsAggregateCall =>
        /\ RankedByCountThenFirstSeen(result.value.top_effects, Pooled("effects"))
        /\ RankedByCountThenFirstSeen(result.value.top_medical_effects,
                                      Pooled("medical_effects"))
        /\ RankedByCountThenFirstSeen(result.value.top_flavors, Pooled("flavors"))
        /\ RankedByCountThenFirstSeen(result.value.top_aromas, Pooled("aromas"))

\* An aggregate whose effects list has a tie kept in first-seen order and an
\* item moved ahead of one seen earlier because it was counted more often
C8_Witness ==
    /\ IsAggregateCall
    /\ LET top == result.value.top_effects
           pooled == Pooled("effects")
       IN  \E i, j \in 1..Len(top) :
            /\ i < j
            /\ CountOf(pooled, top[i]) = CountOf(pooled, top[j])
            /\ \E k \in 1..Len(top) :
                /\ j < k
                /\ CountOf(pooled, top[j]) > CountOf(pooled, top[k])
                /\ FirstSeen(pooled, top[k]) < FirstSeen(pooled, top[j])

\* `top` has at most k entries, none twice, and every item of `pooled` it
\* leaves out is counted no more often than each item it holds
TopOfCounts(top, pooled, k) ==
    /\ Len(top) <= k
    /\ NoDuplicates(top)
    /\ \A i \in 1..Len(pooled) :
        (\A j \in 1..Len(top) : top[j] # pooled[i]) =>
            \A j \in 1..Len(top) : CountOf(pooled, pooled[i]) <= CountOf(pooled, top[j])

\* `dominant` has at most k compounds, none twice, and every compound of the
\* aggregate map it leaves out has a value no higher than each it holds
TopOfValues(dominant, aggregate, k) ==
    /\ Len(dominant) <= k
    /\ NoDuplicates(dominant)
    /\ \A i \in 1..Len(aggregate) :
        (\A j \in 1..Len(dominant) : dominant[j] # aggregate[i][1]) =>
            \A j \in 1..Len(dominant) :
                aggregate[i][2] <= DictGet(aggregate, dominant[j], 0)

\* C9: for every input list the aggregate's lists are cut to fixed sizes: at
\* most 10 top effects, 8 top medical effects, 6 top flavors, 6 top aromas,
\* 5 dominant terpenes and 3 dominant cannabinoids; no list has a duplicate,
\* and no item left out has a strictly higher count (or aggregate value)
\* than an item kept.
C9_TruncatedTopLists ==
    IsAggregateCall =>
        /\ TopOfCounts(result.value.top_effects, Pooled("effects"), 10)
        /\ TopOfCounts(result.value.top_medical_effects, Pooled("medical_effects"), 8)
        /\ TopOfCounts(result.value.top_flavors, Pooled("flavors"), 6)
        /\ TopOfCounts(result.value.top_aromas, Pooled("aromas"), 6)
        /\ TopOfValues(result.value.dominant_terpenes,
                       result.value.aggregate_terpenes, 5)
        /\ TopOfValues(result.value.dominant_cannabinoids,
                       result.value.aggregate_cannabinoids, 3)

\* An aggregate in which every ranked list of effects, medical effects,
\* flavors, aromas and terpenes is full and has left items out
C9_Witness ==
    /\ IsAggregateCall
    /\ Len(result.value.top_effects) = 10
    /\ \E i \in 1..Len(Pooled("effects")) :
        \A j \in 1..10 : result.value.top_effects[j] # Pooled("effects")[i]
    /\ Len(result.value.top_medical_effects) = 8
    /\ Len(result.value.top_flavors) = 6
    /\ Len(result.value.top_aromas) = 6
    /\ Len(result.value.dominant_terpenes) = 5
    /\ Len(result.value.aggregate_terpenes) > 5

\* A comparison that went through: the ranked mode with no favorites returns
\* an error dict instead of a result
IsComparisonResult ==
    \/ IsIdealCall
    \/ IsRankedCall /\ call.ranked_favorites # <<>>

\* C10: every comparison result, in the ideal mode, the ranked individual
\* mode and the ranked z-scored mode, contains a per-compound difference
\* table with one entry for each of the 16 canonical compounds, giving the
\* candidate value, the reference value, the signed difference and the
\* percentage difference.
C10_DifferenceTableInEveryMode ==
    IsComparisonResult =>
        /\ "component_differences" \in DOMAIN result.value
        /\ Len(result.value.component_differences) = 16
        /\ \A i \in 1..Len(TERPENE_SCHEMA) :
            DictHas(result.value.component_differences, TERPENE_SCHEMA[i][1])
        /\ \A i \in 1..Len(CANNABINOID_SCHEMA) :
            DictHas(result.value.component_differences, CANNABINOID_SCHEMA[i][1])
        /\ \A i \in 1..Len(result.value.component_differences) :
            {"strain_value", "ideal_value", "difference", "percentage_diff"}
                \subseteq DOMAIN result.value.component_differences[i][2]

-----------------------------------------------------------------------------
(* Properties of the difference table and the correlation components *)

\* The position of a compound in a list of compound names
PositionIn(order, compound) == CHOOSE i \in 1..Len(order) : order[i] = compound

\* `table` is in descending order of absolute difference, entries of equal
\* absolute difference in the order of `order`, and an entry whose reference
\* value is 0 has percentage difference 0
DifferenceTableOrdered(table, order) ==
    /\ \A i, j \in 1..Len(table) :
        i < j =>
            \/ Abs(table[i][2].difference) > Abs(table[j][2].difference)
            \/ /\ Abs(table[i][2].difference) = Abs(table[j][2].difference)
               /\ PositionIn(order, table[i][1]) < PositionIn(order, table[j][1])
    /\ \A i \in 1..Len(table) :
        table[i][2].ideal_value = 0 => table[i][2].percentage_diff = 0

IdealRows == <<FavoriteVector(call.strain_data), IdealVector(call.ideal_profile)>>

\* C12: in ideal-profile mode both correlation components (standardized and
\* raw) are finite values in [0, 1]: a negative correlation is clamped to 0,
\* and whenever a vector involved has zero variance, raw or after
\* standardization, the correlation is reported as 0; the comparison returns
\* a result whose overall score is a finite number.
C12_CorrelationsFiniteClamped ==
    IsIdealCall =>
        LET breakdown == result.value.similarity_breakdown
            scaled == fit_transform(IdealRows)
            raw_flat == \E i \in 1..Len(IdealRows) : ~StdPositive(IdealRows[i])
            scaled_flat == \E i \in 1..Len(scaled) : ~StdPositive(scaled[i])
        IN  /\ result.returned
            /\ breakdown.z_scored_correlation_similarity \in 0..10000
            /\ breakdown.original_correlation_similarity \in 0..10000
            /\ raw_flat => /\ breakdown.z_scored_correlation_similarity = 0
                           /\ breakdown.original_correlation_similarity = 0
            /\ scaled_flat => breakdown.z_scored_correlation_similarity = 0
            /\ ~raw_flat =>
                    breakdown.original_correlation_similarity
                        = LET r == corrcoef(IdealRows[1], IdealRows[2])
                          IN  IF r.value < 0 THEN 0 ELSE r.value
            /\ result.value.overall_similarity \in -10000..10000

\* Two different vectors, each with variance, whose standardized candidate
\* row is constant (the candidate is above the reference in every compound),
\* so the standardized correlation is undefined, and it is reported as 0
C12_Witness ==
    /\ IsIdealCall
    /\ StdPositive(IdealRows[1])
    /\ StdPositive(IdealRows[2])
    /\ IdealRows[1] # IdealRows[2]
    /\ ~StdPositive(Head(fit_transform(IdealRows)))
    /\ result.value.similarity_breakdown.z_scored_correlation_similarity = 0

-----------------------------------------------------------------------------
(* Properties of the ranked modes *)

\* The favorites a ranked comparison uses: the first 3, or all if fewer
UsedFavorites == Take(call.ranked_favorites, 3)

\* `scores` lists one entry per used favorite, each with the favorite's
\* 1-based rank and name, in descending order of similarity
OnePerUsedFavorite(scores) ==
    /\ Len(scores) = Len(UsedFavorites)
    /\ \A k \in 1..Len(UsedFavorites) : \E i \in 1..Len(scores) : scores[i].rank = k
    /\ \A i \in 1..Len(scores) :
        /\ scores[i].rank \in 1..Len(UsedFavorites)
        /\ scores[i].strain_name = UsedFavorites[scores[i].rank].name
    /\ \A i, j \in 1..Len(scores) : i < j => scores[i].similarity >= scores[j].similarity

\* C15: in ranked-favorites mode without standardization only the first 3
\* ranked favorites (all of them if fewer) are compared; the result lists
\* one raw-cosine score per used favorite in descending order of score, each
\* with its original 1-based rank, and the overall score is the arithmetic
\* mean of exactly those scores.
C15_IndividualModeTopThreeMean ==
    (IsRankedCall /\ ~call.use_zscore /\ call.ranked_favorites # <<>>) =>
        LET scores == result.value.individual_similarities
        IN  /\ OnePerUsedFavorite(scores)
            /\ \A i \in 1..Len(scores) :
                scores[i].similarity
                    = cosine_similarity(FavoriteVector(call.strain_data),
                                        FavoriteVector(UsedFavorites[scores[i].rank]))
            /\ result.value.overall_similarity
                    = DivCut(SumSeq([i \in 1..Len(scores) |-> scores[i].similarity]),
                             Len(scores))
            /\ result.value.method = "individual_cosine"
            /\ result.value.profiles_used = Len(UsedFavorites)

\* A comparison against more than 3 favorites, of which 3 were used, and the
\* best score does not belong to the favorite ranked first
C15_Witness ==
    /\ IsRankedCall
    /\ ~call.use_zscore
    /\ Len(call.ranked_favorites) > 3
    /\ Len(result.value.individual_similarities) = 3
    /\ result.value.individual_similarities[1].rank # 1
    /\ result.value.individual_similarities[1].similarity
            > result.value.individual_similarities[3].similarity

-----------------------------------------------------------------------------
(* Properties of the annotator *)

IsAnnotateCall == call.fn = "build_terpene_analysis"

\* How many compounds of the map have a strictly higher value than `compound`
HigherValued(terpenes, compound) ==
    Cardinality({i \in 1..Len(terpenes) :
                    terpenes[i][2] > DictGet(terpenes, compound, 0)})

\* C17: build_terpene_analysis returns at most 5 entries in descending order
\* of compound value; each entry is for a compound that is among the 5
\* highest-valued compounds of the input map and has an entry in the lookup
\* table; a compound without a table entry is left out without error, so the
\* output can have fewer than 5 entries.
C17_AnnotatesTopFiveKnown ==
    IsAnnotateCall =>
        LET analysis == result.value
            terpenes == call.terpenes
        IN  /\ result.returned
            /\ Len(analysis) <= 5
            /\ \A i \in 1..Len(analysis) :
                /\ DictHas(terpenes, analysis[i].key)
                /\ DictHas(terpene_info, analysis[i].key)
                /\ HigherValued(terpenes, analysis[i].key) < 5
                /\ analysis[i].name = DictGet(terpene_info, analysis[i].key, "")
            /\ \A i, j \in 1..Len(analysis) :
                i < j => /\ analysis[i].key # analysis[j].key
                         /\ DictGet(terpenes, analysis[i].key, 0)
                                >= DictGet(terpenes, analysis[j].key, 0)
            /\ \A i \in 1..Len(terpenes) :
                (DictHas(terpene_info, terpenes[i][1])
                    /\ \A j \in 1..Len(analysis) : analysis[j].key # terpenes[i][1])
                    => Cardinality({k \in 1..Len(terpenes) :
                                        terpenes[k][2] >= terpenes[i][2]}) > 5

\* A map with more than 5 compounds of the lookup table whose analysis has
\* fewer than 5 entries, because compounds outside the table are among its
\* 5 highest values
C17_Witness ==
    /\ IsAnnotateCall
    /\ Cardinality({i \in 1..Len(call.terpenes) :
                        DictHas(terpene_info, call.terpenes[i][1])}) > 5
    /\ Len(result.value) < 5
    /\ Len(result.value) > 0

-----------------------------------------------------------------------------
(* The catalogue as a state machine: lookups and additions of custom        *)
(* strains, in any order.                                                    *)

\* A name as given, in upper case, with a leading blank, and in upper case
\* with a trailing blank
NameVariants(name) ==
    {name, Upper(name), <<" ">> \o name, Upper(name) \o <<" ">>}

CatalogueNames == NameVariants(OgKushKey) \cup NameVariants(ZkName)

\* The records given to add_custom_strain
CustomRecords == {Generated, Irregular}

GetStrain ==
    /\ \E strain_name \in CatalogueNames :
        /\ call' = [fn |-> "get_strain", strain_name |-> strain_name]
        /\ result' = Returned(get_strain(strains, strain_name))
    /\ UNCHANGED <<app, tasks, google_maps>>

AddCustomStrain ==
    /\ \E strain_name \in CatalogueNames, strain_data \in CustomRecords :
        /\ call' = [fn |-> "add_custom_strain",
                    strain_name |-> strain_name,
                    strain_data |-> strain_data]
        /\ strains' = add_custom_strain(strains, strain_name, strain_data)
    /\ result' = Returned(None)
    /\ UNCHANGED <<current_user_id, profiles, tasks, google_maps>>

\* custom_strains.json as _save_custom_strains writes it: the entries of the
\* catalogue whose key is not a key of the built-in catalogue.  Every change
\* of the catalogue is followed by this save, so the file always holds this.
_save_custom_strains(catalogue) ==
    [name \in DOMAIN catalogue \ DOMAIN _load_comprehensive_database |-> catalogue[name]]

\* self.strains.update(custom_strains)
_load_custom_strains(catalogue, custom_strains) ==
    [name \in DOMAIN catalogue \cup DOMAIN custom_strains |->
        IF name \in DOMAIN custom_strains THEN custom_strains[name] ELSE catalogue[name]]

\* EnhancedStrainDatabase(): the built-in catalogue updated from the file
EnhancedStrainDatabase(custom_strains_file) ==
    _load_custom_strains(_load_comprehensive_database, custom_strains_file)

\* The process starts again and constructs the database from the saved file
Construct ==
    /\ call' = [fn |-> "EnhancedStrainDatabase"]
    /\ result' = Returned(None)
    /\ strains' = EnhancedStrainDatabase(_save_custom_strains(strains))
    /\ UNCHANGED <<current_user_id, profiles, tasks, google_maps>>

\* The keys of self.strains in the order the loop of get_similar_strains
\* meets them: the built-in catalogue in the order it is written, then the
\* custom strains
CatalogueKeyOrder ==
    <<GranddaddyPurpleKey, OgKushKey, ZkName,
      <<" ">> \o OgKushKey, OgKushKey \o <<" ">>,
      <<" ">> \o ZkName, ZkName \o <<" ">>>>

\* 1.0 in the unit of the concentrations
One == 20000

\* A common multiple of the numbers of common terpenes, by which a mean of
\* up to 12 terms is a whole number
MeanScale == 27720

\* _calculate_terpene_similarity: the mean over the common terpenes of
\* 1 - |target - candidate|, times MeanScale, and 0 if none is common
_calculate_terpene_similarity(target, candidate) ==
    LET common_terpenes == SelectSeq(DictKeys(target), LAMBDA t : DictHas(candidate, t))
        similarities ==
            [i \in 1..Len(common_terpenes) |->
                One - Abs(DictGet(target, common_terpenes[i], 0)
                            - DictGet(candidate, common_terpenes[i], 0))]
    IN  IF common_terpenes = <<>> THEN 0
        ELSE SumSeq(similarities) * (MeanScale \div Len(similarities))

get_similar_strains(catalogue, strain_name, limit) ==
    LET target_strain == get_strain(catalogue, strain_name)
        names == SelectSeq(CatalogueKeyOrder,
                           LAMBDA name : /\ name \in DOMAIN catalogue
                                         /\ Lower(name) # Lower(strain_name))
        similarities ==
            [i \in 1..Len(names) |->
                <<names[i], _calculate_terpene_similarity(target_strain.terpenes,
                                                          catalogue[names[i]].terpenes)>>]
    IN  IF target_strain = None THEN <<>>
        ELSE Take(SortedReverse(similarities,
                                [i \in 1..Len(similarities) |-> similarities[i][2]]),
                  limit)

\* The largest limit given to get_similar_strains; the default is 3
MaxLimit == 3

GetSimilarStrains ==
    /\ call = Idle
    /\ \E strain_name \in CatalogueNames, limit \in 0..MaxLimit :
        /\ call' = [fn |-> "get_similar_strains",
                    strain_name |-> strain_name,
                    limit |-> limit]
        /\ result' = Returned(get_similar_strains(strains, strain_name, limit))
    /\ UNCHANGED <<app, tasks, google_maps>>

CatalogueNext ==
    \/ GetStrain
    \/ AddCustomStrain
    \/ Construct

CatalogueSpec == Init /\ [][CatalogueNext]_vars

\* C18: after add_custom_strain(n, d), for a name n in any letter case and
\* with or without leading or trailing blanks, get_strain(n) returns d, and
\* so does get_strain of a case variant of n.
C18_AddThenGetRoundTrip ==
    call.fn = "add_custom_strain" =>
        /\ get_strain(strains, call.strain_name) = call.strain_data
        /\ get_strain(strains, Upper(call.strain_name)) = call.strain_data
        /\ get_strain(strains, Lower(call.strain_name)) = call.strain_data

\* C19: get_strain returns a record if and only if the lower-cased and
\* stripped name is a key of the catalogue, built-in or added, and None for
\* any other name; in both cases the lookup leaves the catalogue as it was.
C19_LookupByNormalizedKey ==
    [][call'.fn = "get_strain" =>
        LET key == Strip(Lower(call'.strain_name))
        IN  /\ result'.returned
            /\ key \in DOMAIN strains =>
                    result'.value = strains[key] /\ result'.value # None
            /\ key \notin DOMAIN strains => result'.value = None
            /\ strains' = strains]_vars

\* A lookup by a name in upper case with a trailing blank has found the
\* record stored under the lower-case key
C19_Witness ==
    /\ call.fn = "get_strain"
    /\ call.strain_name # Lower(call.strain_name)
    /\ Lower(call.strain_name) # Strip(Lower(call.strain_name))
    /\ result.value # None
    /\ result.value = strains[Strip(Lower(call.strain_name))]

-----------------------------------------------------------------------------
(* The request handlers of app.py as a state machine.  A handler runs from  *)
(* the idle state to its response; the response is then taken by the        *)
(* client.  A status other than 200 is an HTTPException.                     *)

\* "ZK " as a client types it, with a trailing blank
ZkPadded == Upper(ZkName) \o <<" ">>

\* The strain names of the requests
AppNames == {OgKushKey, ZkPadded}

\* The longest list of favorite strains a request may build
MaxFavoriteStrains == 2

\* The lists of names given to create-ideal-profile: each name at most once
SelectedStrainLists ==
    {names \in ListsUpTo(AppNames, MaxFavoriteStrains) : NoDuplicates(names)}

\* The user ids of the set-user requests: a number whose profile key is the
\* one of the default user, and a number that is false.  The default user
\* "1" is not among them: current_user_id is in UserIds exactly when a
\* set-user request has been served.
UserIds == {IntId(1), IntId(0)}

\* The answers of generate_strain_data to a request that asks for up to n names
AnswersFor(n) == [1..n -> GeneratedRecords]

\* A body a client posts to /api/user-profile that it composed itself: no
\* id, one favorite, one ranked favorite, and an ideal profile of its own
ClientBody ==
    [name |-> "edited",
     favorite_strains |-> <<OgKushKey>>,
     ranked_favorites |-> <<RankedFavorite(ZkPadded, Generated)>>,
     ideal_profile |-> calculate_aggregate_terpene_profile(<<Generated>>)]

\* The bodies posted to /api/user-profile: the profile as fetched, and the
\* client's own
ProfileBodies == {get_user_profile(profiles, current_user_id), ClientBody}

Unauthorized == HttpError(401, "No user ID set")

SetUserAmong(user_ids) ==
    /\ call = Idle
    /\ \E user_id \in user_ids :
        /\ call' = [fn |-> "set_user", user_id |-> user_id]
        /\ current_user_id' = user_id
        /\ result' = Returned(Ok([message |-> <<"User ID set to", user_id>>]))
    /\ UNCHANGED <<profiles, strains, tasks, google_maps>>

SetUser == SetUserAmong(UserIds)

CreateIdealProfile ==
    /\ call = Idle
    /\ \E selected_strains \in SelectedStrainLists :
       \E answers \in AnswersFor(Len(selected_strains)) :
        /\ call' = [fn |-> "create_ideal_profile", selected_strains |-> selected_strains]
        /\ IF ~Truthy(current_user_id)
           THEN result' = Returned(Unauthorized) /\ UNCHANGED <<profiles, strains>>
           ELSE IF selected_strains = <<>>
           THEN /\ result' = Returned(HttpError(400, "No strains selected"))
                /\ UNCHANGED <<profiles, strains>>
           ELSE LET collected == CollectStrainData(strains, selected_strains, answers, TRUE)
                    ideal_profile ==
                        calculate_aggregate_terpene_profile(collected.strain_data_list)
                    user_profile == get_user_profile(profiles, current_user_id)
                IN  /\ strains' = collected.strains
                    /\ profiles' =
                         save_user_profile(profiles, current_user_id,
                            ProfileSet(ProfileSet(user_profile, "favorite_strains",
                                                  selected_strains),
                                       "ideal_profile", ideal_profile))
                    /\ result' = Returned(Ok([ideal_profile |-> ideal_profile,
                                              selected_strains |-> selected_strains]))
    /\ UNCHANGED <<current_user_id, tasks, google_maps>>

GetIdealProfile ==
    /\ call = Idle
    /\ call' = [fn |-> "get_ideal_profile"]
    /\ result' =
         Returned(IF ~Truthy(current_user_id) THEN Unauthorized
                  ELSE LET ideal_profile ==
                               FieldGet(get_user_profile(profiles, current_user_id),
                                        "ideal_profile", None)
                       IN  IF ideal_profile = None
                           THEN HttpError(404, "No ideal profile found")
                           ELSE Ok(ideal_profile))
    /\ UNCHANGED <<app, tasks, google_maps>>

AddStrainToProfile ==
    /\ call = Idle
    /\ \E strain_name \in AppNames \cup {<<>>} :
       LET user_profile == get_user_profile(profiles, current_user_id)
           stored_favorites == FieldGet(user_profile, "favorite_strains", <<>>)
           favorite_strains == Append(stored_favorites, strain_name)
       IN
        /\ call' = [fn |-> "add_strain_to_profile", strain_name |-> strain_name]
        /\ IF strain_name = <<>>
           THEN /\ result' = Returned(HttpError(400, "Strain name is required"))
                /\ UNCHANGED <<profiles, strains>>
           ELSE IF ~Truthy(current_user_id)
           THEN result' = Returned(Unauthorized) /\ UNCHANGED <<profiles, strains>>
           ELSE IF \E i \in 1..Len(stored_favorites) : stored_favorites[i] = strain_name
           THEN /\ result' = Returned(Ok([success |-> FALSE]))
                /\ UNCHANGED <<profiles, strains>>
           ELSE /\ Len(stored_favorites) < MaxFavoriteStrains
                /\ \E answers \in AnswersFor(Len(favorite_strains)) :
                    LET collected ==
                            CollectStrainData(strains, favorite_strains, answers, TRUE)
                        ideal_profile ==
                            calculate_aggregate_terpene_profile(collected.strain_data_list)
                    IN  /\ strains' = collected.strains
                        /\ profiles' =
                             save_user_profile(profiles, current_user_id,
                                ProfileSet(ProfileSet(user_profile, "favorite_strains",
                                                      favorite_strains),
                                           "ideal_profile", ideal_profile))
                        /\ result' = Returned(Ok([success |-> TRUE,
                                                  ideal_profile |-> ideal_profile,
                                                  favorite_strains |-> favorite_strains]))
    /\ UNCHANGED <<current_user_id, tasks, google_maps>>

RemoveStrainFromProfile ==
    /\ call = Idle
    /\ \E strain_name \in AppNames \cup {<<>>} :
       LET user_profile == get_user_profile(profiles, current_user_id)
           stored_favorites == FieldGet(user_profile, "favorite_strains", <<>>)
           favorite_strains == SelectSeq(stored_favorites, LAMBDA s : s # strain_name)
           collected == CollectStrainData(strains, favorite_strains, <<>>, FALSE)
           ideal_profile ==
               calculate_aggregate_terpene_profile(collected.strain_data_list)
       IN
        /\ call' = [fn |-> "remove_strain_from_profile", strain_name |-> strain_name]
        /\ IF strain_name = <<>>
           THEN /\ result' = Returned(HttpError(400, "Strain name is required"))
                /\ UNCHANGED profiles
           ELSE IF ~Truthy(current_user_id)
           THEN result' = Returned(Unauthorized) /\ UNCHANGED profiles
           ELSE IF favorite_strains = stored_favorites
           THEN result' = Returned(Ok([success |-> FALSE])) /\ UNCHANGED profiles
           ELSE IF favorite_strains = <<>>
           THEN /\ profiles' =
                     save_user_profile(profiles, current_user_id,
                        ProfileSet(ProfileSet(user_profile, "favorite_strains", <<>>),
                                   "ideal_profile", None))
                /\ result' = Returned(Ok([success |-> TRUE,
                                          ideal_profile |-> None,
                                          favorite_strains |-> <<>>]))
           ELSE IF collected.strain_data_list = <<>>
           THEN result' = Returned(Ok([success |-> FALSE])) /\ UNCHANGED profiles
           ELSE /\ profiles' =
                     save_user_profile(profiles, current_user_id,
                        ProfileSet(ProfileSet(user_profile, "favorite_strains",
                                              favorite_strains),
                                   "ideal_profile", ideal_profile))
                /\ result' = Returned(Ok([success |-> TRUE,
                                          ideal_profile |-> ideal_profile,
                                          favorite_strains |-> favorite_strains]))
    /\ UNCHANGED <<current_user_id, strains, tasks, google_maps>>

GetUserProfile ==
    /\ call = Idle
    /\ call' = [fn |-> "get_user_profile_endpoint"]
    /\ result' = Returned(IF ~Truthy(current_user_id) THEN Unauthorized
                          ELSE Ok(get_user_profile(profiles, current_user_id)))
    /\ UNCHANGED <<app, tasks, google_maps>>

UpdateUserProfile ==
    /\ call = Idle
    /\ \E body \in ProfileBodies :
        /\ call' = [fn |-> "update_user_profile_endpoint", body |-> body]
        /\ IF ~Truthy(current_user_id)
           THEN result' = Returned(Unauthorized) /\ UNCHANGED profiles
           ELSE /\ profiles' = save_user_profile(profiles, current_user_id, body)
                /\ result' = Returned(Ok([message |-> "Profile updated successfully"]))
    /\ UNCHANGED <<current_user_id, strains, tasks, google_maps>>

\* The texts of the language model in the response are left out
CompareStrain ==
    /\ call = Idle
    /\ \E strain_name \in AppNames, use_zscore \in BOOLEAN, answer \in GeneratedRecords :
       LET found == get_strain(strains, strain_name)
           strain_data ==
               IF found # None THEN found ELSE generate_strain_data(strain_name, answer)
           user_profile == get_user_profile(profiles, current_user_id)
           ideal_profile == FieldGet(user_profile, "ideal_profile", None)
           ranked_favorites == FieldGet(user_profile, "ranked_favorites", <<>>)
           comparison_type ==
               IF use_zscore /\ ranked_favorites # <<>> THEN "ranked_favorites_zscore"
               ELSE IF ranked_favorites # <<>> THEN "ranked_favorites_individual"
               ELSE "ideal_profile"
           comparison ==
               IF ranked_favorites # <<>>
               THEN compare_against_ranked_favorites(strain_data, ranked_favorites,
                                                     use_zscore)
               ELSE compare_against_ideal_profile(strain_data, ideal_profile)
       IN
        /\ call' = [fn |-> "compare_strain",
                    strain_name |-> strain_name,
                    use_zscore |-> use_zscore]
        /\ IF ~Truthy(current_user_id)
           THEN result' = Returned(Unauthorized) /\ UNCHANGED strains
           ELSE /\ strains' =
                     IF found # None THEN strains
                     ELSE add_custom_strain(strains, strain_name, strain_data)
                /\ result' =
                     Returned(IF ranked_favorites = <<>> /\ ideal_profile = None
                              THEN HttpError(500,
                                     "404: No ideal profile or ranked favorites found. Please create one first.")
                              ELSE Ok([strain_analysis |->
                                         [name |-> FieldGet(strain_data, "name", strain_name),
                                          terpenes |->
                                            build_terpene_analysis(
                                                FieldGet(strain_data, "terpenes", <<>>))],
                                       ideal_profile |-> ideal_profile,
                                       ranked_favorites |-> ranked_favorites,
                                       comparison |-> comparison,
                                       comparison_type |-> comparison_type]))
    /\ UNCHANGED <<current_user_id, profiles, tasks, google_maps>>

SaveRankedFavorites ==
    /\ call = Idle
    /\ LET user_profile == get_user_profile(profiles, current_user_id)
           favorite_strains == FieldGet(user_profile, "favorite_strains", <<>>)
       IN
        /\ call' = [fn |-> "save_ranked_favorites"]
        /\ IF ~Truthy(current_user_id)
           THEN result' = Returned(Unauthorized) /\ UNCHANGED profiles
           ELSE IF Len(favorite_strains) < 2
           THEN /\ result' =
                     Returned(HttpError(500,
                        "400: Need at least 2 favorite strains to create ranked favorites"))
                /\ UNCHANGED profiles
           ELSE \E answers \in AnswersFor(Len(favorite_strains)) :
                 LET ranked_favorites ==
                        [i \in 1..Len(favorite_strains) |->
                            RankedFavorite(favorite_strains[i],
                                generate_strain_data(favorite_strains[i], answers[i]))]
                 IN  /\ profiles' =
                          save_user_profile(profiles, current_user_id,
                             ProfileSet(user_profile, "ranked_favorites", ranked_favorites))
                     /\ result' = Returned(Ok([ranked_favorites |-> ranked_favorites]))
    /\ UNCHANGED <<current_user_id, strains, tasks, google_maps>>

AppNext ==
    \/ SetUser
    \/ CreateIdealProfile
    \/ GetIdealProfile
    \/ AddStrainToProfile
    \/ RemoveStrainFromProfile
    \/ GetUserProfile
    \/ UpdateUserProfile
    \/ CompareStrain
    \/ SaveRankedFavorites
    \/ Return

AppSpec == Init /\ [][AppNext]_vars

-----------------------------------------------------------------------------
(* The stored profile and the requests served *)

IsResponseTo(fn) == call # Idle /\ call.fn = fn /\ result # NoResult

Succeeded == result.value.status = 200

\* item in seq
Contains(seq, item) == \E i \in 1..Len(seq) : seq[i] = item

\* The profile stored under a key, and its fields as the handlers read them
FavoriteStrainsOf(profile) == FieldGet(profile, "favorite_strains", <<>>)

IdealProfileOf(profile) == FieldGet(profile, "ideal_profile", None)

RECURSIVE CatalogueRecords(_, _)
\* The records the catalogue holds for the names: the one get_strain finds,
\* else the one add_custom_strain stored for the name as it was given
CatalogueRecords(catalogue, names) ==
    IF names = <<>> THEN <<>>
    ELSE LET found == get_strain(catalogue, Head(names))
         IN  (IF found # None THEN <<found>>
              ELSE IF Lower(Head(names)) \in DOMAIN catalogue
                   THEN <<catalogue[Lower(Head(names))]>>
                   ELSE <<>>)
                \o CatalogueRecords(catalogue, Tail(names))

\* The ideal profile that belongs to a list of favorites under a catalogue
AggregateOfFavorites(catalogue, favorite_strains) ==
    IF favorite_strains = <<>> THEN None
    ELSE calculate_aggregate_terpene_profile(CatalogueRecords(catalogue, favorite_strains))

\* No compound of the aggregate `before` is missing or lower in `after`
FamilyNotBelow(before, after) ==
    \A i \in 1..Len(before) :
        /\ DictHas(after, before[i][1])
        /\ DictGet(after, before[i][1], 0) >= before[i][2]

AggregateNotBelow(before, after) ==
    /\ FamilyNotBelow(before.aggregate_terpenes, after.aggregate_terpenes)
    /\ FamilyNotBelow(before.aggregate_cannabinoids, after.aggregate_cannabinoids)

\* C13: when add-strain-to-profile has added a strain, no compound of the
\* aggregate that was stored before is missing from the aggregate stored
\* after, and none has a lower value.
C13_AddNeverLowersAggregate ==
    [][(/\ call'.fn = "add_strain_to_profile"
        /\ result'.value.status = 200
        /\ result'.value.body.success
        /\ IdealProfileOf(get_user_profile(profiles, current_user_id)) # None)
       => AggregateNotBelow(IdealProfileOf(get_user_profile(profiles, current_user_id)),
                            IdealProfileOf(get_user_profile(profiles', current_user_id)))]_vars

\* C14: whenever a request has changed the favorite strains stored for a
\* user, the ideal profile stored for that user is the aggregate of the
\* catalogue records of exactly those favorites, and is absent if there are
\* none.
C14_IdealProfileFollowsFavorites ==
    [][\A key \in DOMAIN profiles' :
        (\/ key \notin DOMAIN profiles
         \/ FavoriteStrainsOf(profiles'[key]) # FavoriteStrainsOf(profiles[key]))
        => IdealProfileOf(profiles'[key])
             = AggregateOfFavorites(strains', FavoriteStrainsOf(profiles'[key]))]_vars

\* C16: a compare-strain response whose comparison_type is
\* ranked_favorites_zscore carries a comparison computed by the z-scored
\* method.
C16_ZscoreTypeMeansZscoreMethod ==
    (/\ IsResponseTo("compare_strain")
     /\ Succeeded
     /\ result.value.body.comparison_type = "ranked_favorites_zscore")
    => result.value.body.comparison.method = "z_scored_multi_profile"

\* C20: once a set-user request has set the user u, a GET /api/user-profile
\* succeeds and returns a profile whose id is u, whatever profile requests
\* were served since.
C20_GetReturnsProfileOfSetUser ==
    (IsResponseTo("get_user_profile_endpoint") /\ current_user_id \in UserIds)
    => /\ Succeeded
       /\ FieldGet(result.value.body, "id", None) = current_user_id

-----------------------------------------------------------------------------
(* The z-scored cosine of two rows *)

\* The candidate vector of an ideal-mode call
CandidateVector == FavoriteVector(call.strain_data)

\* C21: in ideal-profile mode the z-scored cosine is -1 when candidate and
\* reference differ in at least one compound and 0 when they are equal in
\* every compound; for a pair that differs the overall score is the raw
\* cosine, and the blend is the overall score only for identical vectors.
C21_ZscoredCosineMinusOneOrZero ==
    IsIdealCall =>
        LET breakdown == result.value.similarity_breakdown
            differ == CandidateVector # IdealVector(call.ideal_profile)
        IN  /\ breakdown.z_scored_cosine_similarity \in {-10000, 0}
            /\ differ <=> breakdown.z_scored_cosine_similarity = -10000
            /\ differ => result.value.overall_similarity
                            = breakdown.original_cosine_similarity
            /\ ~differ => result.value.overall_similarity = Blend(breakdown)

\* An ideal-mode result for a pair that differs, scored by a raw cosine that
\* is not the blend
C21_Witness ==
    /\ IsIdealCall
    /\ CandidateVector # IdealVector(call.ideal_profile)
    /\ result.value.similarity_breakdown.z_scored_cosine_similarity = -10000
    /\ result.value.overall_similarity
            = result.value.similarity_breakdown.original_cosine_similarity
    /\ result.value.overall_similarity # Blend(result.value.similarity_breakdown)

\* An ideal-mode result for identical vectors, scored by the blend
C21_WitnessIdentical ==
    /\ IdenticalReference
    /\ result.value.similarity_breakdown.z_scored_cosine_similarity = 0
    /\ result.value.overall_similarity = Blend(result.value.similarity_breakdown)

\* C22: for every record X, comparing X in ideal-profile mode against the
\* aggregate built from [X] alone gives the signed difference 0 for every
\* canonical compound.
C22_SelfAggregateDifferencesZero ==
    (IsIdealCall /\ call.favorites = <<call.strain_data>>) =>
        \A i \in 1..Len(result.value.component_differences) :
            result.value.component_differences[i][2].difference = 0

-----------------------------------------------------------------------------
(* Requests served concurrently.  The handlers are coroutines on one event  *)
(* loop: a handler runs without interruption up to an await, and other      *)
(* requests are served while it waits for generate_strain_data.  A task is  *)
(* one request; its frame holds the handler's local variables.              *)

\* The number of requests served concurrently
MaxTasks == 2

TaskIds == 1..MaxTasks

\* Two users
ConcurrentUserIds == {IntId(1), IntId(2)}

\* A name of the catalogue and a name generate_strain_data is asked for
ConcurrentNames == {OgKushKey, ZkName}

SetUserConcurrently == SetUserAmong(ConcurrentUserIds)

\* tasks with the frame of task t replaced
TaskSet(t, frame) ==
    [k \in DOMAIN tasks \cup {t} |-> IF k = t THEN frame ELSE tasks[k]]

\* The frame of a handler that has answered.  started_as is the value of
\* current_user_id the handler checked when it started.
Done(fn, request, started_as, response) ==
    [pc |-> "done", fn |-> fn, request |-> request, started_as |-> started_as,
     response |-> response]

Suspended(t) == t \in DOMAIN tasks /\ tasks[t].pc = "generate"

RECURSIVE RunUntilAwait(_, _, _)
\* The loop `for strain in names: strain_data = strain_db.get_strain(strain)`
\* up to the first name that is not found, for which the handler awaits
\* generate_strain_data
RunUntilAwait(catalogue, names, strain_data_list) ==
    IF names = <<>> THEN [remaining |-> <<>>, strain_data_list |-> strain_data_list]
    ELSE LET found == get_strain(catalogue, Head(names))
         IN  IF found = None
             THEN [remaining |-> names, strain_data_list |-> strain_data_list]
             ELSE RunUntilAwait(catalogue, Tail(names), Append(strain_data_list, found))

\* add_strain_to_profile after its loop: the profile read at the start is
\* saved under the user that is current now
AddFinished(t, frame, strain_data_list) ==
    LET ideal_profile == calculate_aggregate_terpene_profile(strain_data_list)
    IN  /\ profiles' =
             save_user_profile(profiles, current_user_id,
                ProfileSet(frame.user_profile, "ideal_profile", ideal_profile))
        /\ tasks' = TaskSet(t,
             Done("add_strain_to_profile", frame.request, frame.started_as,
                  Ok([success |-> TRUE,
                      ideal_profile |-> ideal_profile,
                      favorite_strains |-> frame.user_profile.favorite_strains])))

StartAdd ==
    /\ \E t \in TaskIds \ DOMAIN tasks, strain_name \in ConcurrentNames :
       LET user_profile == get_user_profile(profiles, current_user_id)
           stored_favorites == FieldGet(user_profile, "favorite_strains", <<>>)
           favorite_strains == Append(stored_favorites, strain_name)
           progress == RunUntilAwait(strains, favorite_strains, <<>>)
           frame == [pc |-> "generate",
                     fn |-> "add_strain_to_profile",
                     request |-> strain_name,
                     started_as |-> current_user_id,
                     user_profile |->
                        ProfileSet(user_profile, "favorite_strains", favorite_strains),
                     remaining |-> progress.remaining,
                     strain_data_list |-> progress.strain_data_list]
       IN  IF ~Truthy(current_user_id)
           THEN /\ tasks' = TaskSet(t, Done("add_strain_to_profile", strain_name,
                                            current_user_id, Unauthorized))
                /\ UNCHANGED profiles
           ELSE IF \E i \in 1..Len(stored_favorites) : stored_favorites[i] = strain_name
           THEN /\ tasks' = TaskSet(t, Done("add_strain_to_profile", strain_name,
                                            current_user_id, Ok([success |-> FALSE])))
                /\ UNCHANGED profiles
           ELSE /\ Len(stored_favorites) < MaxFavoriteStrains
                /\ IF progress.remaining = <<>>
                   THEN AddFinished(t, frame, progress.strain_data_list)
                   ELSE tasks' = TaskSet(t, frame) /\ UNCHANGED profiles
    /\ UNCHANGED <<call, result, current_user_id, strains, google_maps>>

\* generate_strain_data has answered: the record is added to the catalogue
\* and the loop goes on
ResumeAdd ==
    /\ \E t \in TaskIds, answer \in GeneratedRecords :
        /\ Suspended(t)
        /\ tasks[t].fn = "add_strain_to_profile"
        /\ LET frame == tasks[t]
               strain_data == generate_strain_data(Head(frame.remaining), answer)
               catalogue == add_custom_strain(strains, Head(frame.remaining), strain_data)
               progress == RunUntilAwait(catalogue, Tail(frame.remaining),
                                         Append(frame.strain_data_list, strain_data))
           IN  /\ strains' = catalogue
               /\ IF progress.remaining = <<>>
                  THEN AddFinished(t, frame, progress.strain_data_list)
                  ELSE /\ tasks' = TaskSet(t,
                            [frame EXCEPT !.remaining = progress.remaining,
                                          !.strain_data_list = progress.strain_data_list])
                       /\ UNCHANGED profiles
    /\ UNCHANGED <<call, result, current_user_id, google_maps>>

\* The lists of names given to create-ideal-profile by concurrent requests
ConcurrentStrainLists ==
    {names \in ListsUpTo(ConcurrentNames, MaxFavoriteStrains) :
        names # <<>> /\ NoDuplicates(names)}

\* create_ideal_profile after its loop: the profile of the user that is
\* current now is read, changed and saved
CreateFinished(t, frame, strain_data_list) ==
    LET ideal_profile == calculate_aggregate_terpene_profile(strain_data_list)
        user_profile == get_user_profile(profiles, current_user_id)
    IN  /\ profiles' =
             save_user_profile(profiles, current_user_id,
                ProfileSet(ProfileSet(user_profile, "favorite_strains", frame.request),
                           "ideal_profile", ideal_profile))
        /\ tasks' = TaskSet(t,
             Done("create_ideal_profile", frame.request, frame.started_as,
                  Ok([ideal_profile |-> ideal_profile,
                      selected_strains |-> frame.request])))

StartCreate ==
    /\ \E t \in TaskIds \ DOMAIN tasks, selected_strains \in ConcurrentStrainLists :
       LET progress == RunUntilAwait(strains, selected_strains, <<>>)
           frame == [pc |-> "generate",
                     fn |-> "create_ideal_profile",
                     request |-> selected_strains,
                     started_as |-> current_user_id,
                     remaining |-> progress.remaining,
                     strain_data_list |-> progress.strain_data_list]
       IN  IF ~Truthy(current_user_id)
           THEN /\ tasks' = TaskSet(t, Done("create_ideal_profile", selected_strains,
                                            current_user_id, Unauthorized))
                /\ UNCHANGED profiles
           ELSE IF progress.remaining = <<>>
           THEN CreateFinished(t, frame, progress.strain_data_list)
           ELSE tasks' = TaskSet(t, frame) /\ UNCHANGED profiles
    /\ UNCHANGED <<call, result, current_user_id, strains, google_maps>>

ResumeCreate ==
    /\ \E t \in TaskIds, answer \in GeneratedRecords :
        /\ Suspended(t)
        /\ tasks[t].fn = "create_ideal_profile"
        /\ LET frame == tasks[t]
               strain_data == generate_strain_data(Head(frame.remaining), answer)
               catalogue == add_custom_strain(strains, Head(frame.remaining), strain_data)
               progress == RunUntilAwait(catalogue, Tail(frame.remaining),
                                         Append(frame.strain_data_list, strain_data))
           IN  /\ strains' = catalogue
               /\ IF progress.remaining = <<>>
                  THEN CreateFinished(t, frame, progress.strain_data_list)
                  ELSE /\ tasks' = TaskSet(t,
                            [frame EXCEPT !.remaining = progress.remaining,
                                          !.strain_data_list = progress.strain_data_list])
                       /\ UNCHANGED profiles
    /\ UNCHANGED <<call, result, current_user_id, google_maps>>

\* save_ranked_favorites awaits generate_strain_data for every favorite of
\* the profile it read at the start
StartSaveRanked ==
    /\ \E t \in TaskIds \ DOMAIN tasks :
       LET user_profile == get_user_profile(profiles, current_user_id)
           favorite_strains == FieldGet(user_profile, "favorite_strains", <<>>)
       IN  tasks' = TaskSet(t,
             IF ~Truthy(current_user_id)
             THEN Done("save_ranked_favorites", <<>>, current_user_id, Unauthorized)
             ELSE IF Len(favorite_strains) < 2
             THEN Done("save_ranked_favorites", <<>>, current_user_id,
                       HttpError(500,
                         "400: Need at least 2 favorite strains to create ranked favorites"))
             ELSE [pc |-> "generate",
                   fn |-> "save_ranked_favorites",
                   request |-> <<>>,
                   started_as |-> current_user_id,
                   remaining |-> favorite_strains,
                   ranked_favorites |-> <<>>])
    /\ UNCHANGED <<call, result, app, google_maps>>

\* After the last answer the profile of the user that is current now is
\* read again, given the ranked favorites and saved
ResumeSaveRanked ==
    /\ \E t \in TaskIds, answer \in GeneratedRecords :
        /\ Suspended(t)
        /\ tasks[t].fn = "save_ranked_favorites"
        /\ LET frame == tasks[t]
               strain_name == Head(frame.remaining)
               ranked_favorites ==
                   Append(frame.ranked_favorites,
                          RankedFavorite(strain_name,
                                         generate_strain_data(strain_name, answer)))
               current_profile == get_user_profile(profiles, current_user_id)
           IN  IF Tail(frame.remaining) # <<>>
               THEN /\ tasks' = TaskSet(t,
                         [frame EXCEPT !.remaining = Tail(frame.remaining),
                                       !.ranked_favorites = ranked_favorites])
                    /\ UNCHANGED profiles
               ELSE /\ profiles' =
                         save_user_profile(profiles, current_user_id,
                            ProfileSet(current_profile, "ranked_favorites",
                                       ranked_favorites))
                    /\ tasks' = TaskSet(t,
                         Done("save_ranked_favorites", <<>>, frame.started_as,
                              Ok([ranked_favorites |-> ranked_favorites])))
    /\ UNCHANGED <<call, result, current_user_id, strains, google_maps>>

ConcurrentNext ==
    \/ SetUserConcurrently
    \/ Return
    \/ StartAdd
    \/ ResumeAdd
    \/ StartCreate
    \/ ResumeCreate
    \/ StartSaveRanked
    \/ ResumeSaveRanked

ConcurrentSpec == Init /\ [][ConcurrentNext]_vars

\* Task t answers in this step, having waited for generate_strain_data
AnswersAfterAwait(t) == Suspended(t) /\ tasks'[t].pc = "done"

\* Only the profile stored under the key of user_id may differ in the next state
WritesOnlyProfileOf(user_id) ==
    \A key \in DOMAIN profiles' \ {ProfileKey(user_id)} :
        key \in DOMAIN profiles /\ profiles'[key] = profiles[key]

\* C23: a profile operation (create-ideal-profile, add-strain-to-profile,
\* save-ranked-favorites) that started while user A was current and was
\* suspended awaiting strain-data generation writes only the stored profile
\* of user A, also when a set-user request ran in the meantime.
C23_WritesOnlyStartingUsersProfile ==
    [][\A t \in TaskIds :
        AnswersAfterAwait(t) => WritesOnlyProfileOf(tasks[t].started_as)]_vars

\* Task t is an add-strain-to-profile request that has reported success
AddSucceeded(t) ==
    /\ t \in DOMAIN tasks
    /\ tasks[t].pc = "done"
    /\ tasks[t].fn = "add_strain_to_profile"
    /\ tasks[t].response.status = 200
    /\ tasks[t].response.body.success

\* C24: if two add-strain-to-profile requests of the same user for two
\* different strains have both reported success, and that user's profile is
\* the only one stored, its stored favorite_strains contains both strains.
C24_NoLostFavorite ==
    \A t \in TaskIds, u \in TaskIds :
        (/\ AddSucceeded(t) /\ AddSucceeded(u)
         /\ tasks[t].request # tasks[u].request
         /\ tasks[t].started_as = tasks[u].started_as
         /\ DOMAIN profiles = {ProfileKey(tasks[t].started_as)})
        => LET favorite_strains ==
                   FavoriteStrainsOf(get_user_profile(profiles, tasks[t].started_as))
           IN  /\ Contains(favorite_strains, tasks[t].request)
               /\ Contains(favorite_strains, tasks[u].request)

-----------------------------------------------------------------------------
(* Sequences of the requests that maintain the favorites of a user *)

FavoritesNext ==
    \/ CreateIdealProfile
    \/ AddStrainToProfile
    \/ RemoveStrainFromProfile
    \/ SaveRankedFavorites
    \/ Return

FavoritesSpec == Init /\ [][FavoritesNext]_vars

\* The profile has an ideal profile exactly if it has favorites
IdealProfileIffFavorites(profile) ==
    IdealProfileOf(profile) = None <=> FavoriteStrainsOf(profile) = <<>>

\* The request leaves the stored profiles alone and reports success false
RefusedUnchanged == profiles' = profiles /\ result' = Returned(Ok([success |-> FALSE]))

\* C25: after any sequence of create-ideal-profile, add-strain-to-profile
\* and remove-strain-from-profile requests the stored ideal_profile is None
\* exactly if the stored favorite_strains is empty; removing a strain that is
\* not a favorite, and adding one that already is, leaves the stored profile
\* unchanged and reports success false.
C25_IdealProfileNoneIffNoFavorites ==
    [][LET favorite_strains ==
               FavoriteStrainsOf(get_user_profile(profiles, current_user_id))
       IN  /\ \A key \in DOMAIN profiles' : IdealProfileIffFavorites(profiles'[key])
           /\ (/\ call'.fn = "remove_strain_from_profile"
               /\ call'.strain_name # <<>>
               /\ ~Contains(favorite_strains, call'.strain_name)) => RefusedUnchanged
           /\ (/\ call'.fn = "add_strain_to_profile"
               /\ Contains(favorite_strains, call'.strain_name)) => RefusedUnchanged]_vars

\* The last favorite has been removed and the stored ideal profile is gone
C25_Witness ==
    /\ IsResponseTo("remove_strain_from_profile")
    /\ Succeeded
    /\ result.value.body.success
    /\ ProfileKey(current_user_id) \in DOMAIN profiles
    /\ FavoriteStrainsOf(profiles[ProfileKey(current_user_id)]) = <<>>
    /\ IdealProfileOf(profiles[ProfileKey(current_user_id)]) = None

\* A refused removal and a refused addition
C25_WitnessRefused ==
    /\ IsResponseTo("add_strain_to_profile")
    /\ Succeeded
    /\ ~result.value.body.success
    /\ ProfileKey(current_user_id) \in DOMAIN profiles

\* The names of the ranked favorites of a profile, in order
RankedNames(profile) ==
    LET ranked_favorites == FieldGet(profile, "ranked_favorites", <<>>)
    IN  [i \in 1..Len(ranked_favorites) |-> ranked_favorites[i].name]

\* C26: after any sequence of save-ranked-favorites, create-ideal-profile,
\* add-strain-to-profile and remove-strain-from-profile requests, the names
\* in the stored ranked_favorites, once there are any, are exactly the
\* stored favorite_strains.
C26_RankedNamesAreFavorites ==
    \A key \in DOMAIN profiles :
        RankedNames(profiles[key]) # <<>>
            => RankedNames(profiles[key]) = FavoriteStrainsOf(profiles[key])

-----------------------------------------------------------------------------
(* The mode of compare-strain *)

\* C27: compare-strain compares against the ranked favorites with
\* z-scoring if that is requested and ranked favorites exist, else against
\* the ranked favorites one by one if they exist, else against the ideal
\* profile; when the current user has neither, the answer has status 404
\* and carries no comparison.
C27_ModePriorityAndNotFound ==
    (IsResponseTo("compare_strain") /\ Truthy(current_user_id)) =>
        LET user_profile == get_user_profile(profiles, current_user_id)
            ranked_favorites == FieldGet(user_profile, "ranked_favorites", <<>>)
            response == result.value
        IN  IF ranked_favorites # <<>>
            THEN /\ response.status = 200
                 /\ response.body.comparison_type =
                        IF call.use_zscore THEN "ranked_favorites_zscore"
                        ELSE "ranked_favorites_individual"
            ELSE IF IdealProfileOf(user_profile) # None
            THEN /\ response.status = 200
                 /\ response.body.comparison_type = "ideal_profile"
            ELSE /\ response.status = 404
                 /\ "body" \notin DOMAIN response

-----------------------------------------------------------------------------
(* Persistence of the catalogue *)

\* C28: after add_custom_strain(n, d), a database constructed afresh from
\* the saved custom-strains file returns d for get_strain(n), also when n is
\* the name of a built-in strain that d overrides.
C28_SavedStrainSurvivesConstruction ==
    [][(call.fn = "add_custom_strain" /\ call'.fn = "EnhancedStrainDatabase")
       => get_strain(strains', call.strain_name) = call.strain_data]_vars

-----------------------------------------------------------------------------
(* Similar strains *)

SimilarNext ==
    \/ AddCustomStrain
    \/ GetSimilarStrains
    \/ Return

SimilarSpec == Init /\ [][SimilarNext]_vars

\* C29: get_similar_strains(name, limit) returns at most limit pairs of a
\* strain and its similarity, in descending order of similarity, none of
\* them the queried strain, for every spelling of the name that get_strain
\* resolves; it returns the empty list for a name not in the catalogue.
C29_SimilarStrainsExcludeQueried ==
    call.fn = "get_similar_strains" =>
        LET similarities == result.value
            key == Strip(Lower(call.strain_name))
        IN  IF key \notin DOMAIN strains THEN similarities = <<>>
            ELSE /\ Len(similarities) <= call.limit
                 /\ \A i \in 1..Len(similarities) :
                        /\ similarities[i][1] # key
                        /\ i > 1 => similarities[i - 1][2] >= similarities[i][2]

-----------------------------------------------------------------------------
(* The Google Maps request cache (google_maps_integration.py) *)

\* The params of a call: a dict wrapped so that it compares with None
Dict(items) == [items |-> items]

\* The parameter names of the requests, in the order of str comparison
ParamOrder == <<"address", "key", "region">>

\* sorted(params.items()): the keys of a dict are distinct, so the items
\* are ordered by their keys
SortedItems(d) ==
    LET present == SelectSeq(ParamOrder, LAMBDA k : DictHas(d.items, k))
    IN  [i \in 1..Len(present) |->
            <<present[i], DictGet(d.items, present[i], None)>>]

\* self.api_key
api_key == "API_KEY"

\* The file name of a call in the cache directory.  hash() is taken as
\* injective and str() of a list of items is injective, so the name is
\* identified with the endpoint and the text that is hashed: the empty
\* text for None and for an empty dict, the sorted items otherwise.
_get_cache_path(endpoint, params) ==
    [endpoint |-> endpoint,
     hashed   |-> IF params = None \/ params.items = <<>>
                  THEN <<>>
                  ELSE SortedItems(params)]

\* max_age_days of _is_cache_valid
max_age_days == 30

\* The cache file exists and was written less than max_age_days ago
_is_cache_valid(maps, cache_path) ==
    /\ cache_path \in DOMAIN maps.cache
    /\ maps.now - maps.cache[cache_path].st_mtime < max_age_days

\* The file cache_path written with data at the present time
WriteCache(maps, cache_path, data) ==
    [maps EXCEPT !.cache =
        [p \in DOMAIN maps.cache \cup {cache_path} |->
            IF p = cache_path
            THEN [data |-> data, st_mtime |-> maps.now]
            ELSE maps.cache[p]]]

\* The answer of the service to a request: it echoes what was asked
Response(endpoint, sent) ==
    [status |-> "OK", endpoint |-> endpoint, query |-> SortedItems(sent)]

\* params with the key added: params["key"] = self.api_key, on a new dict
\* when params is None
WithKey(params) ==
    Dict(DictSet(IF params = None THEN <<>> ELSE params.items,
                 "key", api_key))

\* What a call of _make_request did besides returning: whether it went
\* through the rate limiter and whether it sent a request to the service
Outcome(data, rate_limited, requested) ==
    [data |-> data, rate_limited |-> rate_limited, requested |-> requested]

EmptyDict == Dict(<<>>)

RaisedError(name) == [returned |-> TRUE, raised |-> name]

Endpoints == {"geocode/json", "distancematrix/json"}

Addresses == {"denver"}

\* The dicts the callers pass: none, an empty one, the one geocode_address
\* builds, the same items inserted in the other order, and a dict that an
\* earlier call has already added the key to
ParamsGiven ==
    {None, EmptyDict}
    \cup {Dict(<<<<"address", a>>, <<"region", "us">>>>) : a \in Addresses}
    \cup {Dict(<<<<"region", "us">>, <<"address", a>>>>) : a \in Addresses}
    \cup {Dict(<<<<"address", a>>, <<"region", "us">>, <<"key", api_key>>>>) :
             a \in Addresses}

\* _make_request(endpoint, params, use_cache).  The service answers or the
\* request fails; the directory of the cache file, which the endpoint
\* names with its "/" and which __init__ does not create, exists or not.
MakeRequest ==
    /\ call = Idle
    /\ \E endpoint \in Endpoints, params \in ParamsGiven,
          use_cache \in BOOLEAN, answered \in BOOLEAN,
          directory_exists \in BOOLEAN :
        /\ call' = [fn |-> "_make_request", endpoint |-> endpoint,
                    params |-> params, use_cache |-> use_cache]
        /\ LET read_path == _get_cache_path(endpoint, params)
               sent == WithKey(params)
               data == Response(endpoint, sent)
               write_path == _get_cache_path(endpoint, sent)
           IN  IF use_cache /\ _is_cache_valid(google_maps, read_path)
               THEN /\ result' = Returned(Outcome(
                            google_maps.cache[read_path].data, FALSE, FALSE))
                    /\ UNCHANGED google_maps
               ELSE IF ~answered
               THEN /\ result' = Returned(Outcome(EmptyDict, TRUE, TRUE))
                    /\ UNCHANGED google_maps
               ELSE IF ~use_cache
               THEN /\ result' = Returned(Outcome(data, TRUE, TRUE))
                    /\ UNCHANGED google_maps
               ELSE IF ~directory_exists
               THEN /\ result' = RaisedError("FileNotFoundError")
                    /\ UNCHANGED google_maps
               ELSE /\ result' = Returned(Outcome(data, TRUE, TRUE))
                    /\ google_maps' = WriteCache(google_maps, write_path, data)
    /\ UNCHANGED <<app, tasks>>

\* The days that pass in one step of the clock, and the last day modelled
DaysPerStep == 15

MaxDays == 45

\* Time passes
PassTime ==
    /\ call = Idle
    /\ google_maps.now + DaysPerStep <= MaxDays
    /\ google_maps' = [google_maps EXCEPT !.now = @ + DaysPerStep]
    /\ UNCHANGED <<call, result, app, tasks>>

MapsNext ==
    \/ MakeRequest
    \/ PassTime
    \/ Return

MapsSpec == Init /\ [][MapsNext]_vars

\* The call being answered found, under the name a fetch of the same
\* endpoint and equal params writes, a cache file still valid
CachedBefore ==
    /\ call'.fn = "_make_request"
    /\ call'.use_cache
    /\ _is_cache_valid(google_maps,
                       _get_cache_path(call'.endpoint, WithKey(call'.params)))

\* C30: after _make_request(endpoint, params) has fetched and cached a
\* response, a later _make_request with the same endpoint and equal params
\* within the 30 days of validity returns the cached response without a
\* network request and without going through the rate limiter.
C30_CachedResponseIsReused ==
    [][CachedBefore =>
        LET cached == google_maps.cache[
                _get_cache_path(call'.endpoint, WithKey(call'.params))]
        IN  result' = Returned(Outcome(cached.data, FALSE, FALSE))]_vars

=============================================================================
